---- MODULE Spec2Model ----
(***************************************************************************)
(* Brook Queue Manager: the admin console's diff / patch engine            *)
(* (deepDiff, stripReadOnly, collectDiffLines) and the edit-session        *)
(* controller of the App component (openEdit, computePatchAndOpenConfirm,  *)
(* confirmPatch, refresh) with its asynchronous network completions.       *)
(*                                                                         *)
(* JSON values are tagged records.  A mapping keeps its members as a       *)
(* sequence of <<key, value>> entries in insertion order, because          *)
(* JSON.stringify and Object.keys observe that order.  Keys are ordinary   *)
(* property names (none collides with a name inherited from                *)
(* Object.prototype), so `k in obj` is own-key membership.                 *)
(***************************************************************************)
EXTENDS Integers, Sequences, FiniteSets, Bags, TLC

(***************************************************************************)
(* Bounds of the value universe.                                           *)
(***************************************************************************)
MaxNum == 2
MaxLen == 2

(***************************************************************************)
(* JSON values.                                                            *)
(***************************************************************************)
Undefined == [t |-> "undefined"]
Null == [t |-> "null"]
Bool(b) == [t |-> "bool", b |-> b]
Num(n) == [t |-> "num", n |-> n]
Str(s) == [t |-> "str", s |-> s]
List(items) == [t |-> "list", items |-> items]
Obj(members) == [t |-> "obj", members |-> members]
KV(k, v) == [k |-> k, v |-> v]

IsArray(x) == x.t = "list"
IsMapping(x) == x.t = "obj"

\* typeof x
TypeOf(x) ==
  CASE x.t = "undefined" -> "undefined"
    [] x.t = "bool" -> "boolean"
    [] x.t = "num" -> "number"
    [] x.t = "str" -> "string"
    [] OTHER -> "object"

\* x == null (loose): null or undefined
IsNullish(x) == x.t \in {"null", "undefined"}

\* !x : undefined, null, false, 0 and "" are falsy
Falsy(x) ==
  \/ x.t \in {"undefined", "null"}
  \/ x.t = "bool" /\ ~x.b
  \/ x.t = "num" /\ x.n = 0
  \/ x.t = "str" /\ x.s = ""

\* a === b : primitives compare by value, lists and mappings by reference;
\* the two sides of every comparison here are separately constructed
\* (a server response and a JSON.parse result, both copied by stripReadOnly),
\* so two structured values are never the same reference.
StrictEq(a, b) ==
  /\ a.t = b.t
  /\ CASE a.t \in {"undefined", "null"} -> TRUE
       [] a.t = "bool" -> a.b = b.b
       [] a.t = "num" -> a.n = b.n
       [] a.t = "str" -> a.s = b.s
       [] OTHER -> FALSE

Range(s) == {s[i] : i \in 1..Len(s)}

\* Object.keys(obj) of a mapping, in insertion order
ObjectKeys(o) == [i \in 1..Len(o.members) |-> o.members[i].k]
KeySet(o) == {o.members[i].k : i \in 1..Len(o.members)}
\* k in obj
HasKey(o, k) == k \in KeySet(o)
\* obj[k]
Get(o, k) ==
  IF HasKey(o, k)
  THEN o.members[CHOOSE i \in 1..Len(o.members) : o.members[i].k = k].v
  ELSE Undefined

\* Object.keys(x).length for any value x that is not null or undefined
ObjectKeysLength(x) ==
  CASE x.t = "obj" -> Len(x.members)
    [] x.t = "list" -> Len(x.items)
    [] x.t = "str" -> Len(x.s)
    [] OTHER -> 0

(***************************************************************************)
(* JSON.stringify(v) and prettyJson(v) = JSON.stringify(v, null, 2).       *)
(***************************************************************************)
Quote(s) == "\"" \o s \o "\""

RECURSIVE JoinWith(_, _)
JoinWith(parts, sep) ==
  IF Len(parts) = 0 THEN ""
  ELSE IF Len(parts) = 1 THEN parts[1]
  ELSE parts[1] \o sep \o JoinWith(Tail(parts), sep)

RECURSIVE JSONstringify(_)
JSONstringify(v) ==
  CASE v.t = "null" -> "null"
    [] v.t = "bool" -> IF v.b THEN "true" ELSE "false"
    [] v.t = "num" -> ToString(v.n)
    [] v.t = "str" -> Quote(v.s)
    [] v.t = "list" ->
         "[" \o JoinWith([i \in 1..Len(v.items) |-> JSONstringify(v.items[i])], ",") \o "]"
    [] v.t = "obj" ->
         "{" \o JoinWith([i \in 1..Len(v.members) |->
                  Quote(v.members[i].k) \o ":" \o JSONstringify(v.members[i].v)], ",") \o "}"

RECURSIVE Pretty(_, _)
Pretty(v, indent) ==
  LET inner == indent \o "  " IN
  CASE v.t = "list" /\ Len(v.items) > 0 ->
         "[\n" \o inner
           \o JoinWith([i \in 1..Len(v.items) |-> Pretty(v.items[i], inner)], ",\n" \o inner)
           \o "\n" \o indent \o "]"
    [] v.t = "obj" /\ Len(v.members) > 0 ->
         "{\n" \o inner
           \o JoinWith([i \in 1..Len(v.members) |->
                  Quote(v.members[i].k) \o ": " \o Pretty(v.members[i].v, inner)], ",\n" \o inner)
           \o "\n" \o indent \o "}"
    [] OTHER -> JSONstringify(v)

prettyJson(x) == Pretty(x, "")

(***************************************************************************)
(* PATCH diff builder.                                                     *)
(***************************************************************************)
\* the keys of `new Set([...Object.keys(a), ...Object.keys(b)])`, in the
\* Set's iteration order: a's keys, then the keys only b has
UnionKeys(a, b) ==
  ObjectKeys(a) \o SelectSeq(ObjectKeys(b), LAMBDA k : ~HasKey(a, k))

RECURSIVE deepDiff(_, _)
RECURSIVE DiffMembers(_, _, _)
RECURSIVE DiffMembersWithRemovals(_, _, _)
RECURSIVE DiffMembersWholeValue(_, _, _)

\* a diff loop that encodes a key missing from `edited` as a null entry
DiffMembersWithRemovals(original, edited, keys) ==
  IF Len(keys) = 0 THEN <<>>
  ELSE LET k == Head(keys)
           rest == DiffMembersWithRemovals(original, edited, Tail(keys))
       IN IF ~HasKey(edited, k) THEN <<KV(k, Null)>> \o rest
          ELSE LET d == deepDiff(Get(original, k), Get(edited, k))
               IN IF d # Undefined THEN <<KV(k, d)>> \o rest ELSE rest

\* a diff loop that emits the whole edited value of a changed key
DiffMembersWholeValue(original, edited, keys) ==
  IF Len(keys) = 0 THEN <<>>
  ELSE LET k == Head(keys)
           rest == DiffMembersWholeValue(original, edited, Tail(keys))
       IN IF ~HasKey(edited, k) THEN rest
          ELSE LET d == deepDiff(Get(original, k), Get(edited, k))
               IN IF d # Undefined THEN <<KV(k, Get(edited, k))>> \o rest ELSE rest

\* the loop over `keys`, building `out` in iteration order
DiffMembers(original, edited, keys) ==
  IF Len(keys) = 0 THEN <<>>
  ELSE LET k == Head(keys)
           rest == DiffMembers(original, edited, Tail(keys))
       IN IF ~HasKey(edited, k) THEN rest
          ELSE LET d == deepDiff(Get(original, k), Get(edited, k))
               IN IF d # Undefined THEN <<KV(k, d)>> \o rest ELSE rest

\* a diff that treats an edited null as "no change"
deepDiffSkipsNull(original, edited) ==
  IF StrictEq(original, edited) \/ IsNullish(edited) THEN Undefined
  ELSE IF \/ IsNullish(original)
          \/ TypeOf(original) # "object"
          \/ TypeOf(edited) # "object"
          \/ IsArray(original)
          \/ IsArray(edited)
       THEN IF IsArray(original) /\ IsArray(edited)
            THEN IF JSONstringify(original) = JSONstringify(edited)
                 THEN Undefined
                 ELSE edited
            ELSE edited
       ELSE LET out == DiffMembers(original, edited, UnionKeys(original, edited))
            IN IF Len(out) > 0 THEN Obj(out) ELSE Undefined

\* a diff that returns the mapping it built even when it has no keys
deepDiffKeepsEmpty(original, edited) ==
  IF StrictEq(original, edited) THEN Undefined
  ELSE IF \/ IsNullish(original)
          \/ IsNullish(edited)
          \/ TypeOf(original) # "object"
          \/ TypeOf(edited) # "object"
          \/ IsArray(original)
          \/ IsArray(edited)
       THEN IF IsArray(original) /\ IsArray(edited)
            THEN IF JSONstringify(original) = JSONstringify(edited)
                 THEN Undefined
                 ELSE edited
            ELSE edited
       ELSE Obj(DiffMembers(original, edited, UnionKeys(original, edited)))

deepDiff(original, edited) ==
  IF StrictEq(original, edited) THEN Undefined
  ELSE IF \/ IsNullish(original)
          \/ IsNullish(edited)
          \/ TypeOf(original) # "object"
          \/ TypeOf(edited) # "object"
          \/ IsArray(original)
          \/ IsArray(edited)
       THEN IF IsArray(original) /\ IsArray(edited)
            THEN IF JSONstringify(original) = JSONstringify(edited)
                 THEN Undefined
                 ELSE edited
            ELSE edited
       ELSE LET out == DiffMembers(original, edited, UnionKeys(original, edited))
            IN IF Len(out) > 0 THEN Obj(out) ELSE Undefined

\* d ?? {}
PatchOf(d) == IF IsNullish(d) THEN Obj(<<>>) ELSE d

\* the read-only keys stripped from both sides before diffing
deny == {"queue_id", "id", "created_at", "updated_at", "last_modified_time",
         "total_records", "next_page_token"}

RECURSIVE stripReadOnly(_)
RECURSIVE stripFirstDenied(_)
RECURSIVE DropFirstDenied(_)

\* the members of a mapping without the first denied one
DropFirstDenied(members) ==
  IF Len(members) = 0 THEN <<>>
  ELSE IF Head(members).k \in deny THEN Tail(members)
  ELSE <<Head(members)>> \o DropFirstDenied(Tail(members))

\* a filter that stops at the first denied key of each mapping
stripFirstDenied(obj) ==
  IF Falsy(obj) \/ TypeOf(obj) # "object" THEN obj
  ELSE IF IsArray(obj)
       THEN List([i \in 1..Len(obj.items) |-> stripReadOnly(obj.items[i])])
       ELSE LET kept == DropFirstDenied(obj.members)
            IN Obj([i \in 1..Len(kept) |-> KV(kept[i].k, stripReadOnly(kept[i].v))])

\* a filter that returns lists as they are
stripSkipsLists(obj) ==
  IF Falsy(obj) \/ TypeOf(obj) # "object" \/ IsArray(obj) THEN obj
  ELSE LET kept == SelectSeq(obj.members, LAMBDA m : m.k \notin deny)
       IN Obj([i \in 1..Len(kept) |-> KV(kept[i].k, stripReadOnly(kept[i].v))])

\* a filter that removes the denied keys of the root mapping only
stripRootOnly(obj) ==
  IF Falsy(obj) \/ TypeOf(obj) # "object" \/ IsArray(obj) THEN obj
  ELSE Obj(SelectSeq(obj.members, LAMBDA m : m.k \notin deny))

stripReadOnly(obj) ==
  IF Falsy(obj) \/ TypeOf(obj) # "object" THEN obj
  ELSE IF IsArray(obj)
       THEN List([i \in 1..Len(obj.items) |-> stripReadOnly(obj.items[i])])
       ELSE LET kept == SelectSeq(obj.members, LAMBDA m : m.k \notin deny)
            IN Obj([i \in 1..Len(kept) |-> KV(kept[i].k, stripReadOnly(kept[i].v))])

(***************************************************************************)
(* Diff helpers (git-style).                                               *)
(***************************************************************************)
\* x && typeof x === "object" && !Array.isArray(x)
isObj(x) == ~Falsy(x) /\ TypeOf(x) = "object" /\ ~IsArray(x)

fmt(v) == JSONstringify(v)

\* every key of the universe in the order of Array.prototype.sort()
\* (ascending UTF-16 code units)
KeyOrder ==
  <<"a", "b", "created_at", "id", "last_modified_time", "name", "next_page_token",
    "queue_id", "s", "total_records", "updated_at", "x", "y">>

\* [...keys].sort()
SortKeys(keys) == SelectSeq(KeyOrder, LAMBDA k : k \in keys)

\* `path || "<root>"`, the path being the dot-joined keys from the root
PathText(path) == IF Len(path) = 0 THEN "<root>" ELSE JoinWith(path, ".")

\* a DiffLine {kind, text}; `path` and `shown` keep the key path and the
\* value the text was formatted from
DiffLine(kind, path, v) ==
  [kind |-> kind,
   text |-> (IF kind = "add" THEN "+ " ELSE "- ") \o PathText(path) \o ": " \o JSONstringify(v),
   path |-> path,
   shown |-> v]

RECURSIVE collectDiffLines(_, _, _)
RECURSIVE CollectKeys(_, _, _, _)
RECURSIVE CollectKeysNoRemovals(_, _, _, _)
\* a loop over `sorted` that shows nothing for a key missing from b
CollectKeysNoRemovals(a, b, path, sorted) ==
  IF Len(sorted) = 0 THEN <<>>
  ELSE LET k == Head(sorted)
           nextPath == Append(path, k)
           rest == CollectKeysNoRemovals(a, b, path, Tail(sorted))
       IN IF ~HasKey(b, k) THEN rest
          ELSE IF ~HasKey(a, k) THEN <<DiffLine("add", nextPath, Get(b, k))>> \o rest
          ELSE collectDiffLines(Get(a, k), Get(b, k), nextPath) \o rest

\* the loop over `sorted`
CollectKeys(a, b, path, sorted) ==
  IF Len(sorted) = 0 THEN <<>>
  ELSE LET k == Head(sorted)
           nextPath == Append(path, k)
           rest == CollectKeys(a, b, path, Tail(sorted))
       IN IF ~HasKey(b, k) THEN <<DiffLine("remove", nextPath, Get(a, k))>> \o rest
          ELSE IF ~HasKey(a, k) THEN <<DiffLine("add", nextPath, Get(b, k))>> \o rest
          ELSE collectDiffLines(Get(a, k), Get(b, k), nextPath) \o rest

\* a preview that shows nothing for a changed list
collectDiffLinesSkipsLists(a, b, path) ==
  IF StrictEq(a, b) THEN <<>>
  ELSE IF IsArray(a) \/ IsArray(b)
       THEN <<>>
       ELSE IF ~isObj(a) \/ ~isObj(b)
            THEN <<DiffLine("remove", path, a), DiffLine("add", path, b)>>
            ELSE CollectKeys(a, b, path, SortKeys(KeySet(a) \cup KeySet(b)))

collectDiffLines(a, b, path) ==
  IF StrictEq(a, b) THEN <<>>
  ELSE IF IsArray(a) \/ IsArray(b)
       THEN IF JSONstringify(a) = JSONstringify(b) THEN <<>>
            ELSE <<DiffLine("remove", path, a), DiffLine("add", path, b)>>
       ELSE IF ~isObj(a) \/ ~isObj(b)
            THEN <<DiffLine("remove", path, a), DiffLine("add", path, b)>>
            ELSE CollectKeys(a, b, path, SortKeys(KeySet(a) \cup KeySet(b)))

(***************************************************************************)
(* The value universe of the function-level specification.                 *)
(***************************************************************************)
SeqsUpTo(S, n) == UNION {[1..m -> S] : m \in 0..n}
\* sequences of distinct keys
KeySeqs(K, n) == {ks \in SeqsUpTo(K, n) : \A i, j \in 1..Len(ks) : i # j => ks[i] # ks[j]}

Nums == {Num(i) : i \in 1..MaxNum}
Scalars == {Null, Str("A")} \cup Nums
InnerKeys == {"x", "y", "id"}
MkObj(ks, vs) == Obj([i \in 1..Len(ks) |-> KV(ks[i], vs[i])])
FlatObjs ==
  UNION {{MkObj(ks, vs) : vs \in [1..Len(ks) -> Nums]} : ks \in KeySeqs(InnerKeys, 2)}
FlatLists == {List(s) : s \in SeqsUpTo(Nums, MaxLen)}
Level1 == Scalars \cup FlatLists \cup FlatObjs
Nested ==
  {Obj(<<KV("s", v)>>) : v \in Level1}
    \cup {List(<<o>>) : o \in FlatObjs}
    \cup {Obj(<<KV("s", List(<<o>>))>>) : o \in FlatObjs}
    \cup {Obj(<<KV("s", o), KV("a", Num(1))>>) : o \in FlatObjs}

\* the concrete values of the documented examples
ExA123 == Obj(<<KV("a", List(<<Num(1), Num(2), Num(3)>>))>>)
ExA12 == Obj(<<KV("a", List(<<Num(1), Num(2)>>))>>)
ExA321 == Obj(<<KV("a", List(<<Num(3), Num(2), Num(1)>>))>>)
ExSxy12 == Obj(<<KV("s", Obj(<<KV("x", Num(1)), KV("y", Num(2))>>))>>)
ExSxy13 == Obj(<<KV("s", Obj(<<KV("x", Num(1)), KV("y", Num(3))>>))>>)
ExAx1 == Obj(<<KV("a", Obj(<<KV("x", Num(1))>>))>>)
ExA5 == Obj(<<KV("a", Num(5))>>)
ExQ1A == Obj(<<KV("queue_id", Str("q1")), KV("name", Str("A"))>>)
ExQ9B == Obj(<<KV("queue_id", Str("q9")), KV("name", Str("B"))>>)
ExIds == Obj(<<KV("queue_id", Str("q1")), KV("id", Num(1)), KV("name", Str("A"))>>)
ExAB12 == Obj(<<KV("a", Num(1)), KV("b", Num(2))>>)
ExA1 == Obj(<<KV("a", Num(1))>>)
\* every denied key at the root, in a nested mapping and in a list element
ExAllDenied ==
  LET denied == <<KV("queue_id", Str("q1")), KV("id", Num(1)), KV("created_at", Num(1)),
                  KV("updated_at", Num(1)), KV("last_modified_time", Num(1)),
                  KV("total_records", Num(1)), KV("next_page_token", Str("A"))>>
  IN Obj(denied \o <<KV("name", Str("A")),
                      KV("s", Obj(denied \o <<KV("x", Num(1))>>)),
                      KV("a", List(<<Obj(denied \o <<KV("y", Num(2))>>), Num(1)>>))>>)
SpecExamples == {ExA123, ExA12, ExA321, ExSxy12, ExSxy13, ExAx1, ExA5, ExQ1A, ExQ9B, ExIds,
                 ExAB12, ExA1, ExAllDenied}

Values == Level1 \cup Nested \cup SpecExamples

(***************************************************************************)
(* The console: server data, draft texts and the parsing boundary.         *)
(***************************************************************************)
\* at most this many network calls are in flight at once
MaxInFlight == 2

\* resources as the list endpoint returns them and as the detail endpoint does
ListQ1 == ExQ1A
FullQ1 ==
  Obj(<<KV("queue_id", Str("q1")), KV("name", Str("A")),
        KV("s", Obj(<<KV("x", Num(1)), KV("id", Num(1))>>))>>)
\* a resource the list endpoint returns with neither queue_id nor id
ListNoId == Obj(<<KV("name", Str("A"))>>)
\* a second resource
ListQ2 == Obj(<<KV("queue_id", Str("q2")), KV("name", Str("B"))>>)
FullQ2 ==
  Obj(<<KV("queue_id", Str("q2")), KV("name", Str("B")),
        KV("s", Obj(<<KV("x", Num(2)), KV("id", Num(2))>>))>>)
\* the first resource after a PATCH of its name
ListQ1Renamed == Obj(<<KV("queue_id", Str("q1")), KV("name", Str("B"))>>)
DetailsOf(id) == IF id = "q1" THEN {FullQ1} ELSE IF id = "q2" THEN {FullQ2} ELSE {}

\* what the user types into the edit box: serialized JSON values and one
\* text that is not JSON
DraftValues ==
  {ExQ9B,
   Obj(<<KV("name", Str("A"))>>),
   Obj(<<KV("name", Str("A")),
         KV("s", Obj(<<KV("x", Num(2)), KV("id", Num(2))>>))>>),
   List(<<Obj(<<KV("id", Num(1)), KV("x", Num(1))>>)>>),
   Str("A"), Num(1), Null}
NotJson == "{"
DraftTexts == {prettyJson(v) : v \in DraftValues} \cup {NotJson}

\* the payload the create box starts from
createQueueTemplate ==
  Obj(<<KV("queue_name", Str("")),
        KV("queue_description", Str("")),
        KV("channel_types", List(<<Str("voice")>>)),
        KV("max_wait_time", Num(300)),
        KV("wrap_up_time", Num(15)),
        KV("max_engagement_in_queue", Num(1))>>)

\* a payload typed into the create box
CreateDraft == Obj(<<KV("queue_name", Str("A"))>>)

\* every value whose serialization can be in the edit box or the create box
Parsable == DraftValues \cup {ListQ1, FullQ1, createQueueTemplate, CreateDraft}

JsonTexts == {prettyJson(v) : v \in Parsable}
\* JSON.parse on the texts above: the value a text is the serialization of
JSONparse == [text \in JsonTexts |-> CHOOSE v \in Parsable : prettyJson(v) = text]

\* try { JSON.parse(text) } catch (e) { e.message }
safeParseJson(text) ==
  IF text \in JsonTexts
  THEN [ok |-> TRUE, value |-> JSONparse[text]]
  ELSE [ok |-> FALSE, error |-> "Unexpected end of JSON input"]

\* String(x)
JsString(x) ==
  CASE x.t = "str" -> x.s
    [] x.t = "num" -> ToString(x.n)
    [] x.t = "undefined" -> "undefined"
    [] OTHER -> JSONstringify(x)

\* a || b
OrElse(a, b) == IF Falsy(a) THEN b ELSE a

\* response envelopes {ok, status, data | message}
OkEnvelope(data) == Obj(<<KV("ok", Bool(TRUE)), KV("status", Num(200)), KV("data", data)>>)
ErrEnvelope == Obj(<<KV("ok", Bool(FALSE)), KV("status", Num(400)), KV("message", Str("Bad Request"))>>)
\* non-ok envelopes whose message is under data, and with no message at all
ErrDataMessage ==
  Obj(<<KV("ok", Bool(FALSE)), KV("status", Num(429)),
        KV("data", Obj(<<KV("message", Str("Rate limited"))>>))>>)
ErrBare == Obj(<<KV("ok", Bool(FALSE)), KV("status", Num(500))>>)
\* the outcome of an awaited call: an envelope, or a rejection (fetch throws)
Thrown == [t |-> "thrown", message |-> "Failed to fetch"]

\* a message lookup that reads the top-level message only
MessageOfTopOnly(res, fallback) == OrElse(Get(res, "message"), Str(fallback)).s

\* res?.message || res?.data?.message || fallback
MessageOf(res, fallback) ==
  LET m == Get(res, "message")
      d == Get(res, "data")
      dm == IF d.t = "obj" THEN Get(d, "message") ELSE Undefined
  IN OrElse(OrElse(m, dm), Str(fallback)).s

(***************************************************************************)
(* Text as the handlers scan it.  The delete confirmation is a sequence of *)
(* characters.  A CSV text is a sequence of pieces: each of the characters *)
(* parseCsv tests for (comma, newline, carriage return, double quote), a   *)
(* white-space character, or a run of other characters that neither       *)
(* starts nor ends with white space; parseCsv appends the characters of a  *)
(* run to the field one after the other, and trim() leaves a run whole.    *)
(***************************************************************************)
Whitespace == {" ", "\t", "\n", "\r"}
LowerCase == <<"a", "b", "c", "d", "e", "f", "g", "h", "i", "j", "k", "l", "m",
               "n", "o", "p", "q", "r", "s", "t", "u", "v", "w", "x", "y", "z">>
UpperCase == <<"A", "B", "C", "D", "E", "F", "G", "H", "I", "J", "K", "L", "M",
               "N", "O", "P", "Q", "R", "S", "T", "U", "V", "W", "X", "Y", "Z">>

RECURSIVE TrimStart(_)
\* String.prototype.trimStart on a sequence of characters or pieces
TrimStart(cs) ==
  IF Len(cs) > 0 /\ Head(cs) \in Whitespace THEN TrimStart(Tail(cs)) ELSE cs

RECURSIVE TrimEnd(_)
TrimEnd(cs) ==
  IF Len(cs) > 0 /\ cs[Len(cs)] \in Whitespace THEN TrimEnd(SubSeq(cs, 1, Len(cs) - 1)) ELSE cs

\* String.prototype.trim
Trim(cs) == TrimEnd(TrimStart(cs))

\* String.prototype.toUpperCase, character by character
ToUpperCase(cs) ==
  [i \in 1..Len(cs) |->
     IF \E j \in 1..Len(LowerCase) : LowerCase[j] = cs[i]
     THEN UpperCase[CHOOSE j \in 1..Len(LowerCase) : LowerCase[j] = cs[i]]
     ELSE cs[i]]

\* the string a sequence of characters or pieces spells
TextOf(cs) == JoinWith(cs, "")

\* a confirmation test that does not trim
UpperUntrimmed(cs) == TextOf(ToUpperCase(cs))

\* deleteConfirmText.trim().toUpperCase()
TrimUpper(cs) == TextOf(ToUpperCase(Trim(cs)))

(***************************************************************************)
(* Templates and CSV helpers of the create and bulk tabs.                  *)
(***************************************************************************)
\* o?.[k]
Opt(o, k) == IF o.t = "obj" THEN Get(o, k) ELSE Undefined

\* res?.data?.queue_templates || res?.data?.data?.queue_templates ||
\* res?.queue_templates || [], kept only when it is an array
pickTemplatesFromResponse(res) ==
  LET data == OrElse(OrElse(OrElse(Opt(Opt(res, "data"), "queue_templates"),
                                   Opt(Opt(Opt(res, "data"), "data"), "queue_templates")),
                            Opt(res, "queue_templates")),
                     List(<<>>))
  IN IF IsArray(data) THEN data.items ELSE <<>>

sampleCsvTemplate ==
  <<"queue_name", ",", "queue_description", "\n",
    "Example Voice Queue", ",", "Created from template batch", "\n",
    "Example Queue 2", ",", "Another queue created from template batch">>

\* field.trim()
TrimField(field) == TextOf(Trim(field))

\* if (row.some((x) => x.length > 0)) rows.push(row)
PushRow(rows, row) ==
  IF \E i \in 1..Len(row) : row[i] # "" THEN Append(rows, row) ELSE rows

RECURSIVE ScanCsv(_, _, _, _, _, _)
\* the scanning loop of parseCsv from position i on, and the flush after it
ScanCsv(text, i, rows, row, field, inQuotes) ==
  IF i > Len(text)
  THEN PushRow(rows, Append(row, TrimField(field)))
  ELSE LET c == text[i]
           next == IF i < Len(text) THEN text[i + 1] ELSE ""
       IN IF inQuotes
          THEN IF c = "\"" /\ next = "\""
               THEN ScanCsv(text, i + 2, rows, row, Append(field, "\""), TRUE)
               ELSE IF c = "\""
                    THEN ScanCsv(text, i + 1, rows, row, field, FALSE)
                    ELSE ScanCsv(text, i + 1, rows, row, Append(field, c), TRUE)
          ELSE IF c = "\""
               THEN ScanCsv(text, i + 1, rows, row, field, TRUE)
               ELSE IF c = ","
                    THEN ScanCsv(text, i + 1, rows, Append(row, TrimField(field)), <<>>, FALSE)
                    ELSE IF c = "\n"
                         THEN ScanCsv(text, i + 1,
                                      PushRow(rows, Append(row, TrimField(field))),
                                      <<>>, <<>>, FALSE)
                         ELSE IF c = "\r"
                              THEN ScanCsv(text, i + 1, rows, row, field, FALSE)
                              ELSE ScanCsv(text, i + 1, rows, row, Append(field, c), FALSE)

RECURSIVE RowObject(_, _, _)
\* headers.forEach((h, idx) => (obj[h] = (r[idx] ?? "").trim())): a repeated
\* header keeps its first position and takes the last value
RowObject(headers, r, idx) ==
  IF idx = 0 THEN <<>>
  ELSE LET before == RowObject(headers, r, idx - 1)
           h == headers[idx]
           v == Str(IF idx <= Len(r) THEN r[idx] ELSE "")
       IN IF \E j \in 1..Len(before) : before[j].k = h
          THEN [j \in 1..Len(before) |-> IF before[j].k = h THEN KV(h, v) ELSE before[j]]
          ELSE Append(before, KV(h, v))

parseCsv(text) ==
  LET rows == ScanCsv(text, 1, <<>>, <<>>, <<>>, FALSE)
  IN IF Len(rows) < 1 THEN <<>>
     ELSE LET headers == rows[1]
          IN [n \in 1..(Len(rows) - 1) |-> Obj(RowObject(headers, rows[n + 1], Len(headers)))]

csvRowToCreatePayload(r) ==
  Obj(<<KV("queue_name", OrElse(OrElse(Get(r, "queue_name"), Get(r, "name")), Str(""))),
        KV("queue_description",
           OrElse(OrElse(Get(r, "queue_description"), Get(r, "description")), Str("")))>>)

\* bulkPayloads.filter((p) => p?.queue_name)
ValidRows(payloads) == SelectSeq(payloads, LAMBDA p : ~Falsy(Opt(p, "queue_name")))

\* what the user puts into the delete confirmation box
DeleteInputs ==
  {<<"d", "e", "l", "e", "t", "e">>,
   <<" ", "D", "E", "L", "E", "T", "E", " ">>,
   <<"D", "e", "l", "e", "t", "e">>,
   <<"D", "E", "L">>}

\* what the user puts into the create box
CreateTexts == {prettyJson(CreateDraft), NotJson}

\* what the user puts into the CSV box: the sample, a header without data
\* rows, and a data row without a name
CsvHeaderOnly == <<"queue_name", ",", "queue_description", "\n">>
CsvNoName == <<"queue_name", ",", "queue_description", "\n", ",", "x">>
CsvTexts == {sampleCsvTemplate, CsvHeaderOnly, CsvNoName}

\* the template list as the endpoint returns it
TemplateT1 == Obj(<<KV("template_id", Str("t1")), KV("template_status", Str("active"))>>)
TemplateResponses == {<<TemplateT1>>}

(***************************************************************************)
(* State of the App component, the calls in flight, and the inputs and     *)
(* result of the function-level specification.                             *)
(***************************************************************************)
VARIABLES
  loading,            \* list reload in progress
  err,                \* the inline error: null or a message
  queues,             \* the queue list
  editing,            \* the resource being edited, or null
  originalQueue,      \* the diff baseline
  editJsonText,       \* the draft text
  patchResult,        \* serialized response of the last mutation
  patchConfirmOpen,   \* the diff preview is open
  computedPatch,      \* the patch computed by the last review
  editedParsed,       \* the parsed draft of the last review
  patchBusy,          \* a commit is in flight
  deleteConfirmText,  \* the delete confirmation input
  activeTab,          \* "list", "create" or "bulk"
  createJsonText,     \* the text of the create box
  createConfirmOpen,  \* the create confirmation is open
  createParsed,       \* the parsed create payload
  createBusy,         \* a create is in flight
  csvText,            \* the text of the CSV box
  bulkPreviewOpen,    \* the bulk preview is open
  bulkRows,           \* the parsed CSV rows
  bulkPayloads,       \* the create payloads of the rows
  bulkBusy,           \* a batch create is in flight
  bulkResult,         \* serialized response of the last batch create
  templates,          \* the queue templates
  templatesLoading,   \* template reload in progress
  selectedTemplateId, \* the chosen template, or ""
  pending,            \* bag of the network calls awaiting completion
  area,               \* the area of the console the user works in during a run
  fnName,             \* which function was applied to fnOriginal, fnEdited
  fnOriginal,
  fnEdited,
  fnResult,
  lastOpened,         \* history: the id of the row the user last clicked Edit on
  serverList,         \* the remote API: which list it holds, "before" or "after"
  ownFields,          \* the runtime: Response attributes are own properties
  adminKey,           \* env.ADMIN_API_KEY, "" when not configured
  cachedAccessToken,  \* the worker's cached token, or null
  cachedAccessTokenExpMs, \* its recorded expiry
  now,                \* Date.now()
  request,            \* the request the worker is handling, or null
  response,           \* the response to it, or null while there is none
  tasks,              \* handleBulkCreate: the create payloads of the rows
  cursor,             \* handleBulkCreate: the next task to take
  results,            \* handleBulkCreate: the results pushed so far
  fibers,             \* the zoomFetch calls of the request, one per worker()
  tokenFetches,       \* token requests sent while handling the request
  upstream            \* upstream API requests sent while handling it

editVars == <<editing, originalQueue, editJsonText, patchConfirmOpen, computedPatch,
              editedParsed, patchBusy, deleteConfirmText>>
createVars == <<createJsonText, createConfirmOpen, createParsed, createBusy>>
bulkVars == <<csvText, bulkPreviewOpen, bulkRows, bulkPayloads, bulkBusy, bulkResult>>
templateVars == <<templates, templatesLoading, selectedTemplateId>>
formVars == <<activeTab, createVars, bulkVars, templateVars>>
appVars == <<loading, err, queues, editing, originalQueue, editJsonText, patchResult,
             patchConfirmOpen, computedPatch, editedParsed, patchBusy,
             deleteConfirmText, pending, formVars>>
fnVars == <<fnName, fnOriginal, fnEdited, fnResult>>
proxyVars == <<ownFields, adminKey, cachedAccessToken, cachedAccessTokenExpMs, now,
               request, response, tasks, cursor, results, fibers, tokenFetches,
               upstream>>
\* the history of the session, the remote API and the worker
worldVars == <<lastOpened, serverList, proxyVars>>
\* what no handler of the console touches
otherVars == <<area, fnVars, worldVars>>
vars == <<loading, err, queues, editing, originalQueue, editJsonText, patchResult,
          patchConfirmOpen, computedPatch, editedParsed, patchBusy,
          deleteConfirmText, pending, activeTab, createJsonText, createConfirmOpen,
          createParsed, createBusy, csvText, bulkPreviewOpen, bulkRows, bulkPayloads,
          bulkBusy, bulkResult, templates, templatesLoading, selectedTemplateId,
          area, fnName, fnOriginal, fnEdited, fnResult, lastOpened, serverList,
          ownFields, adminKey, cachedAccessToken, cachedAccessTokenExpMs, now,
          request, response, tasks, cursor, results, fibers, tokenFetches, upstream>>

Call(op, id, body, caller) == [op |-> op, id |-> id, body |-> body, caller |-> caller]
InFlight == BagCardinality(pending)
Send(c) == pending (+) SetToBag({c})
Done(c) == pending (-) SetToBag({c})

\* the list the remote API holds before and after the PATCH of a run in the
\* area "overlap"
ListAt(version) == IF version = "after" THEN <<ListQ1Renamed>> ELSE <<ListQ1>>
\* what the remote API answers to a list request sent now, and to one sent
\* after a successful mutation: outside the area "overlap" every list
\* request is answered alike
ListAskedNow == IF area = "overlap" THEN serverList ELSE ""
ListAskedAfterMutation == IF area = "overlap" THEN "after" ELSE ""

\* state after construction: the mount effect has called refresh()
AppInit ==
  /\ loading = TRUE
  /\ err = Null
  /\ queues = <<>>
  /\ editing = Null
  /\ originalQueue = Null
  /\ editJsonText = ""
  /\ patchResult = ""
  /\ patchConfirmOpen = FALSE
  /\ computedPatch = Null
  /\ editedParsed = Null
  /\ patchBusy = FALSE
  /\ deleteConfirmText = <<>>
  /\ activeTab = "list"
  /\ createJsonText = prettyJson(createQueueTemplate)
  /\ createConfirmOpen = FALSE
  /\ createParsed = Null
  /\ createBusy = FALSE
  /\ csvText = sampleCsvTemplate
  /\ bulkPreviewOpen = FALSE
  /\ bulkRows = <<>>
  /\ bulkPayloads = <<>>
  /\ bulkBusy = FALSE
  /\ bulkResult = ""
  /\ templates = <<>>
  /\ templatesLoading = FALSE
  /\ selectedTemplateId = ""
  /\ pending = SetToBag({Call("listQueues", "", "", "mount")})

\* the worker as loaded (lines 14-16 of the worker), handling no request
NoFibers == [w \in 1..4 |-> [pc |-> "idle", idx |-> 0]]
ProxyLoaded ==
  /\ cachedAccessToken = Null
  /\ cachedAccessTokenExpMs = 0
  /\ now = 0
  /\ request = Null
  /\ response = Null
  /\ tasks = <<>>
  /\ cursor = 0
  /\ results = <<>>
  /\ fibers = NoFibers
  /\ tokenFetches = 0
  /\ upstream = <<>>

\* outside the specifications of the worker and of the overlapping
\* sessions: nothing opened yet, the remote list as it was, a worker without
\* an API key
WorldInit ==
  /\ lastOpened = ""
  /\ serverList = "before"
  /\ ownFields = FALSE
  /\ adminKey = ""
  /\ ProxyLoaded

Init ==
  /\ AppInit
  /\ WorldInit
  /\ area = "edit"
  /\ fnName = "none"
  /\ fnOriginal = Null
  /\ fnEdited = Null
  /\ fnResult = Undefined

(***************************************************************************)
(* refresh(): the list reload, up to its await and after it.               *)
(***************************************************************************)
\* the Refresh button, disabled while loading
refresh ==
  /\ ~loading
  /\ InFlight < MaxInFlight
  /\ loading' = TRUE
  /\ err' = Null
  /\ pending' = Send(Call("listQueues", "", ListAskedNow, "user"))
  /\ UNCHANGED <<queues, editing, originalQueue, editJsonText, patchResult,
                 patchConfirmOpen, computedPatch, editedParsed, patchBusy,
                 deleteConfirmText>>

\* a handler's busy flag after a reload: the handler that awaited the
\* reload clears its flag in its `finally`
BusyAfterReloadKept(busy, caller, handler) == busy
BusyAfterReload(busy, caller, handler) == IF caller = handler THEN FALSE ELSE busy

\* the lists the server returns during a run: its one queue, which in the
\* area "unidentified" carries no identifier; two queues in the area "pair"
ListResponses ==
  IF area = "unidentified" THEN {<<ListNoId>>}
  ELSE IF area = "pair" THEN {<<ListQ1, ListQ2>>}
  ELSE IF area = "overlap" THEN {ListAt("before"), ListAt("after")}
  ELSE {<<ListQ1>>}

\* in the area "reload" the list endpoint also fails with the other shapes
\* of non-ok envelope
ListEnvelopes ==
  {OkEnvelope(Obj(<<KV("queues", List(items))>>)) : items \in ListResponses}
    \cup (IF area = "overlap" THEN {} ELSE {ErrEnvelope, Thrown})
    \cup (IF area = "reload" THEN {ErrDataMessage, ErrBare} ELSE {})

\* the responses to one list request: in the area "overlap" the list the
\* remote API held when the request was sent
ListEnvelopesOf(c) ==
  IF area = "overlap"
  THEN {OkEnvelope(Obj(<<KV("queues", List(ListAt(c.body)))>>))}
  ELSE ListEnvelopes

\* a reload completion that also closes the edit session
ListResponseClosesEdit(c, res) ==
  /\ BagIn(c, pending)
  /\ c.op = "listQueues"
  /\ res \in ListEnvelopesOf(c)
  /\ pending' = Done(c)
  /\ IF res = Thrown
     THEN /\ err' = Str(res.message)
          /\ UNCHANGED queues
     ELSE IF Falsy(Get(res, "ok"))
          THEN /\ err' = Str(MessageOf(res, "API error"))
               /\ UNCHANGED queues
          ELSE /\ queues' = Get(Get(res, "data"), "queues").items
               /\ UNCHANGED err
  /\ loading' = FALSE
  /\ patchBusy' = BusyAfterReload(patchBusy, c.caller, "confirmPatch")
  /\ createBusy' = BusyAfterReload(createBusy, c.caller, "confirmCreate")
  /\ bulkBusy' = BusyAfterReload(bulkBusy, c.caller, "confirmBulk")
  /\ editing' = Null
  /\ UNCHANGED <<originalQueue, editJsonText, patchResult, patchConfirmOpen,
                 computedPatch, editedParsed, deleteConfirmText>>
  /\ UNCHANGED <<activeTab, createJsonText, createConfirmOpen, createParsed, csvText,
                 bulkPreviewOpen, bulkRows, bulkPayloads, bulkResult, templateVars>>

\* listQueues resolves or rejects; a reload awaited by confirmPatch then
\* runs confirmPatch's `finally`
ListResponse(c, res) ==
  /\ BagIn(c, pending)
  /\ c.op = "listQueues"
  /\ res \in ListEnvelopesOf(c)
  /\ pending' = Done(c)
  /\ IF res = Thrown
     THEN /\ err' = Str(res.message)
          /\ UNCHANGED queues
     ELSE IF Falsy(Get(res, "ok"))
          THEN /\ err' = Str(MessageOf(res, "API error"))
               /\ UNCHANGED queues
          ELSE /\ queues' = Get(Get(res, "data"), "queues").items
               /\ UNCHANGED err
  /\ loading' = FALSE
  /\ patchBusy' = BusyAfterReload(patchBusy, c.caller, "confirmPatch")
  /\ createBusy' = BusyAfterReload(createBusy, c.caller, "confirmCreate")
  /\ bulkBusy' = BusyAfterReload(bulkBusy, c.caller, "confirmBulk")
  /\ UNCHANGED <<editing, originalQueue, editJsonText, patchResult, patchConfirmOpen,
                 computedPatch, editedParsed, deleteConfirmText>>
  /\ UNCHANGED <<activeTab, createJsonText, createConfirmOpen, createParsed, csvText,
                 bulkPreviewOpen, bulkRows, bulkPayloads, bulkResult, templateVars>>

(***************************************************************************)
(* openEdit(q): opens the edit session at once, then re-seeds it from the  *)
(* detail fetch.                                                           *)
(***************************************************************************)
\* String(q.queue_id || q.id || "")
QueueIdOrEmpty(q) == JsString(OrElse(OrElse(Get(q, "queue_id"), Get(q, "id")), Str("")))
\* String(editing.queue_id || editing.id)
QueueId(q) == JsString(OrElse(Get(q, "queue_id"), Get(q, "id")))

\* the Edit button of a row of the list tab
openEdit(q) ==
  /\ activeTab = "list"
  /\ q \in Range(queues)
  /\ InFlight < MaxInFlight
  /\ patchResult' = ""
  /\ deleteConfirmText' = <<>>
  /\ patchConfirmOpen' = FALSE
  /\ computedPatch' = Null
  /\ editedParsed' = Null
  /\ editing' = q
  /\ originalQueue' = q
  /\ editJsonText' = prettyJson(q)
  /\ IF QueueIdOrEmpty(q) = ""
     THEN /\ err' = Str("Missing queue id")
          /\ UNCHANGED pending
     ELSE /\ err' = Null
          /\ pending' = Send(Call("getQueue", QueueIdOrEmpty(q), "", "openEdit"))
  /\ UNCHANGED <<loading, queues, patchBusy>>

\* a reading of the detail response that takes the envelope for the resource
FullOfEnvelope(res) == res

\* res?.data?.data ?? res?.data ?? res
FullOf(res) ==
  LET d == Get(res, "data")
      dd == IF d.t = "obj" THEN Get(d, "data") ELSE Undefined
  IN IF ~IsNullish(dd) THEN dd ELSE IF ~IsNullish(d) THEN d ELSE res

DetailEnvelopes(id) == {OkEnvelope(full) : full \in DetailsOf(id)} \cup {ErrEnvelope, Thrown}

\* getQueue resolves or rejects: the rest of openEdit
DetailResponse(c, res) ==
  /\ BagIn(c, pending)
  /\ c.op = "getQueue"
  /\ res \in DetailEnvelopes(c.id)
  /\ pending' = Done(c)
  /\ IF res = Thrown
     THEN /\ err' = Str(res.message)
          /\ UNCHANGED <<editing, originalQueue, editJsonText>>
     ELSE IF Falsy(Get(res, "ok"))
          THEN /\ err' = Str(MessageOf(res, "Failed to load queue details"))
               /\ UNCHANGED <<editing, originalQueue, editJsonText>>
          ELSE LET full == FullOf(res)
               IN /\ editing' = full
                  /\ originalQueue' = full
                  /\ editJsonText' = prettyJson(full)
                  /\ UNCHANGED err
  /\ UNCHANGED <<loading, queues, patchResult, patchConfirmOpen, computedPatch,
                 editedParsed, patchBusy, deleteConfirmText>>

(***************************************************************************)
(* The edit modal (rendered while `editing` is set).                       *)
(***************************************************************************)
\* typing in the draft textarea
TypeDraft(text) ==
  /\ ~Falsy(editing)
  /\ text \in DraftTexts
  /\ editJsonText' = text
  /\ UNCHANGED <<loading, err, queues, editing, originalQueue, patchResult,
                 patchConfirmOpen, computedPatch, editedParsed, patchBusy,
                 deleteConfirmText, pending>>

\* the Reset button
ResetDraft ==
  /\ ~Falsy(editing)
  /\ editJsonText' = prettyJson(originalQueue)
  /\ UNCHANGED <<loading, err, queues, editing, originalQueue, patchResult,
                 patchConfirmOpen, computedPatch, editedParsed, patchBusy,
                 deleteConfirmText, pending>>

\* Cancel, Close, or a click on the backdrop of the edit modal
CloseEdit ==
  /\ ~Falsy(editing)
  /\ editing' = Null
  /\ UNCHANGED <<loading, err, queues, originalQueue, editJsonText, patchResult,
                 patchConfirmOpen, computedPatch, editedParsed, patchBusy,
                 deleteConfirmText, pending>>

\* the Review Diff button
computePatchAndOpenConfirm ==
  /\ ~Falsy(editing)
  /\ LET parsed == safeParseJson(editJsonText)
     IN IF ~parsed.ok
        THEN /\ err' = Str(parsed.error)
             /\ UNCHANGED <<computedPatch, editedParsed, patchConfirmOpen>>
        ELSE LET o == stripReadOnly(originalQueue)
                 e == stripReadOnly(parsed.value)
                 d == deepDiff(o, e)
                 patch == PatchOf(d)
             IN /\ err' = Null
                /\ computedPatch' = patch
                /\ editedParsed' = parsed.value
                /\ patchConfirmOpen' = TRUE
  /\ UNCHANGED <<loading, queues, editing, originalQueue, editJsonText, patchResult,
                 patchBusy, deleteConfirmText, pending>>

(***************************************************************************)
(* The PATCH confirm modal (rendered while patchConfirmOpen && editing).   *)
(***************************************************************************)
ConfirmModalOpen == patchConfirmOpen /\ ~Falsy(editing)

\* !computedPatch || Object.keys(computedPatch).length === 0
PatchIsEmpty(patch) == Falsy(patch) \/ ObjectKeysLength(patch) = 0

\* a Confirm PATCH button that is disabled for an empty patch only
ConfirmDisabledWhenEmptyOnly == PatchIsEmpty(computedPatch)

\* `disabled` of the Confirm PATCH button
ConfirmDisabled == patchBusy \/ PatchIsEmpty(computedPatch)

\* the "No changes detected" message shown in place of the diff
NoChangesShown == ConfirmModalOpen /\ PatchIsEmpty(computedPatch)

\* the lines of the DiffBlock, when it is rendered
PreviewLines ==
  IF ConfirmModalOpen /\ ~PatchIsEmpty(computedPatch)
  THEN collectDiffLines(stripReadOnly(originalQueue),
                        stripReadOnly(OrElse(editedParsed, Obj(<<>>))), <<>>)
  ELSE <<>>

\* Back, Close, or a click on the backdrop of the confirm modal
BackToEdit ==
  /\ ConfirmModalOpen
  /\ patchConfirmOpen' = FALSE
  /\ UNCHANGED <<loading, err, queues, editing, originalQueue, editJsonText,
                 patchResult, computedPatch, editedParsed, patchBusy,
                 deleteConfirmText, pending>>

\* the Confirm PATCH button: confirmPatch() up to its await
confirmPatch ==
  /\ ConfirmModalOpen
  /\ ~ConfirmDisabled
  /\ InFlight < MaxInFlight
  /\ patchResult' = ""
  /\ IF PatchIsEmpty(computedPatch)
     THEN /\ err' = Str("No changes detected (diff is empty).")
          /\ UNCHANGED <<patchBusy, pending>>
     ELSE /\ err' = Null
          /\ patchBusy' = TRUE
          /\ pending' = Send(Call("patchQueue", QueueId(editing),
                                  JSONstringify(computedPatch), "confirmPatch"))
  /\ UNCHANGED <<loading, queues, editing, originalQueue, editJsonText,
                 patchConfirmOpen, computedPatch, editedParsed, deleteConfirmText>>

MutationEnvelopes == {OkEnvelope(Null), ErrEnvelope, Thrown}

\* a check that takes every envelope for a success
IsOkAlways(res) == TRUE
\* res?.ok
IsOk(res) == ~Falsy(Opt(res, "ok"))

\* patchQueue resolves or rejects: the rest of confirmPatch; on an ok
\* envelope it closes the session and calls refresh()
PatchResponse(c, res) ==
  /\ BagIn(c, pending)
  /\ c.op = "patchQueue"
  /\ res \in MutationEnvelopes
  /\ IF res = Thrown
     THEN /\ err' = Str(res.message)
          /\ patchBusy' = FALSE
          /\ pending' = Done(c)
          /\ UNCHANGED <<patchResult, patchConfirmOpen, editing, loading>>
     ELSE /\ patchResult' = prettyJson(res)
          /\ IF IsOk(res)
             THEN /\ patchConfirmOpen' = FALSE
                  /\ editing' = Null
                  /\ loading' = TRUE
                  /\ err' = Null
                  /\ pending' = Done(c) (+) SetToBag({Call("listQueues", "", ListAskedAfterMutation, "confirmPatch")})
                  /\ UNCHANGED patchBusy
             ELSE /\ patchBusy' = FALSE
                  /\ pending' = Done(c)
                  /\ UNCHANGED <<patchConfirmOpen, editing, loading, err>>
  /\ UNCHANGED <<queues, originalQueue, editJsonText, computedPatch, editedParsed,
                 deleteConfirmText>>

(***************************************************************************)
(* Delete, gated by the typed confirmation.                                *)
(***************************************************************************)
TypeDeleteConfirm(text) ==
  /\ ~Falsy(editing)
  /\ text \in DeleteInputs
  /\ deleteConfirmText' = text
  /\ UNCHANGED <<loading, err, queues, editing, originalQueue, editJsonText,
                 patchResult, patchConfirmOpen, computedPatch, editedParsed,
                 patchBusy, pending>>

\* the Delete button: confirmDelete() up to its await
confirmDelete ==
  /\ ~Falsy(editing)
  /\ InFlight < MaxInFlight
  /\ patchResult' = ""
  /\ IF TrimUpper(deleteConfirmText) # "DELETE"
     THEN /\ err' = Str("To delete, type DELETE in the confirmation box.")
          /\ UNCHANGED pending
     ELSE /\ err' = Null
          /\ pending' = Send(Call("deleteQueue", QueueId(editing), "", "confirmDelete"))
  /\ UNCHANGED <<loading, queues, editing, originalQueue, editJsonText,
                 patchConfirmOpen, computedPatch, editedParsed, patchBusy,
                 deleteConfirmText>>

\* deleteQueue resolves or rejects: the rest of confirmDelete
DeleteResponse(c, res) ==
  /\ BagIn(c, pending)
  /\ c.op = "deleteQueue"
  /\ res \in MutationEnvelopes
  /\ IF res = Thrown
     THEN /\ err' = Str(res.message)
          /\ pending' = Done(c)
          /\ UNCHANGED <<patchResult, editing, loading>>
     ELSE /\ patchResult' = prettyJson(res)
          /\ IF IsOk(res)
             THEN /\ editing' = Null
                  /\ loading' = TRUE
                  /\ err' = Null
                  /\ pending' = Done(c) (+) SetToBag({Call("listQueues", "", "", "confirmDelete")})
             ELSE /\ pending' = Done(c)
                  /\ UNCHANGED <<editing, loading, err>>
  /\ UNCHANGED <<queues, originalQueue, editJsonText, patchConfirmOpen, computedPatch,
                 editedParsed, patchBusy, deleteConfirmText>>

(***************************************************************************)
(* Tabs and templates.                                                     *)
(***************************************************************************)
Tabs == {"list", "create", "bulk"}

\* the effect on activeTab: entering the bulk tab loads the templates when
\* there are none and no load is running
LoadsOnEnter(tab) == tab = "bulk" /\ ~templatesLoading /\ Len(templates) = 0

\* a tab button (disabled for the active tab), with the effect it triggers;
\* loadTemplates() reads the selectedTemplateId of the render it was made in
SetActiveTab(tab) ==
  /\ tab \in Tabs
  /\ activeTab # tab
  /\ activeTab' = tab
  /\ IF LoadsOnEnter(tab)
     THEN /\ InFlight < MaxInFlight
          /\ templatesLoading' = TRUE
          /\ pending' = Send(Call("listQueueTemplates", selectedTemplateId, "", "loadTemplates"))
     ELSE UNCHANGED <<templatesLoading, pending>>
  /\ UNCHANGED <<loading, err, queues, patchResult, editVars, createVars, bulkVars,
                 templates, selectedTemplateId>>

\* the Refresh Templates button of the bulk tab
loadTemplates ==
  /\ activeTab = "bulk"
  /\ ~templatesLoading
  /\ InFlight < MaxInFlight
  /\ templatesLoading' = TRUE
  /\ pending' = Send(Call("listQueueTemplates", selectedTemplateId, "", "loadTemplates"))
  /\ UNCHANGED <<loading, err, queues, patchResult, editVars, activeTab, createVars,
                 bulkVars, templates, selectedTemplateId>>

TemplateEnvelopes ==
  {OkEnvelope(Obj(<<KV("queue_templates", List(items))>>)) : items \in TemplateResponses}
    \cup {ErrEnvelope, Thrown}

\* items.find((t) => t.template_status === "active") || items[0]
PreferredTemplate(items) ==
  IF \E i \in 1..Len(items) : Opt(items[i], "template_status") = Str("active")
  THEN items[CHOOSE i \in 1..Len(items) :
               /\ Opt(items[i], "template_status") = Str("active")
               /\ \A j \in 1..(i - 1) : Opt(items[j], "template_status") # Str("active")]
  ELSE items[1]

\* listQueueTemplates resolves or rejects: the rest of loadTemplates; c.id
\* is the selectedTemplateId loadTemplates was called with
TemplatesResponse(c, res) ==
  /\ BagIn(c, pending)
  /\ c.op = "listQueueTemplates"
  /\ res \in TemplateEnvelopes
  /\ pending' = Done(c)
  /\ IF res = Thrown
     THEN /\ err' = Str(res.message)
          /\ UNCHANGED <<templates, selectedTemplateId>>
     ELSE IF ~IsOk(res)
          THEN /\ err' = Str(MessageOf(res, "Failed to load templates"))
               /\ UNCHANGED <<templates, selectedTemplateId>>
          ELSE LET items == pickTemplatesFromResponse(res)
               IN /\ templates' = items
                  /\ selectedTemplateId' =
                       IF c.id = "" /\ Len(items) > 0
                       THEN JsString(OrElse(Opt(PreferredTemplate(items), "template_id"), Str("")))
                       ELSE selectedTemplateId
                  /\ UNCHANGED err
  /\ templatesLoading' = FALSE
  /\ UNCHANGED <<loading, queues, patchResult, editVars, activeTab, createVars, bulkVars>>

\* the template <select> of the bulk tab: the empty option or a template
SelectTemplate(id) ==
  /\ activeTab = "bulk"
  /\ ~templatesLoading
  /\ id \in {""} \cup {JsString(OrElse(Opt(templates[i], "template_id"), Str(""))) :
                        i \in 1..Len(templates)}
  /\ selectedTemplateId' = id
  /\ UNCHANGED <<loading, err, queues, patchResult, editVars, activeTab, createVars,
                 bulkVars, templates, templatesLoading, pending>>

(***************************************************************************)
(* Create flow.                                                            *)
(***************************************************************************)
\* typing in the create box
TypeCreate(text) ==
  /\ activeTab = "create"
  /\ text \in CreateTexts
  /\ createJsonText' = text
  /\ UNCHANGED <<loading, err, queues, patchResult, editVars, activeTab,
                 createConfirmOpen, createParsed, createBusy, bulkVars, templateVars,
                 pending>>

\* the Reset Template button
ResetTemplate ==
  /\ activeTab = "create"
  /\ createJsonText' = prettyJson(createQueueTemplate)
  /\ UNCHANGED <<loading, err, queues, patchResult, editVars, activeTab,
                 createConfirmOpen, createParsed, createBusy, bulkVars, templateVars,
                 pending>>

\* the Review & Create button
openCreateConfirm ==
  /\ activeTab = "create"
  /\ LET parsed == safeParseJson(createJsonText)
     IN IF ~parsed.ok
        THEN /\ err' = Str(parsed.error)
             /\ UNCHANGED <<createParsed, createConfirmOpen>>
        ELSE /\ err' = Null
             /\ createParsed' = parsed.value
             /\ createConfirmOpen' = TRUE
  /\ UNCHANGED <<loading, queues, patchResult, editVars, activeTab, createJsonText,
                 createBusy, bulkVars, templateVars, pending>>

\* Back, Close, or a click on the backdrop of the create confirmation
BackFromCreate ==
  /\ createConfirmOpen
  /\ createConfirmOpen' = FALSE
  /\ UNCHANGED <<loading, err, queues, patchResult, editVars, activeTab, createJsonText,
                 createParsed, createBusy, bulkVars, templateVars, pending>>

\* `disabled` of the Confirm CREATE button
CreateDisabled == createBusy

\* the Confirm CREATE button: confirmCreate() up to its await
confirmCreate ==
  /\ createConfirmOpen
  /\ ~CreateDisabled
  /\ InFlight < MaxInFlight
  /\ bulkResult' = ""
  /\ patchResult' = ""
  /\ IF Falsy(createParsed)
     THEN /\ err' = Str("Create payload missing.")
          /\ UNCHANGED <<createBusy, pending>>
     ELSE /\ err' = Null
          /\ createBusy' = TRUE
          /\ pending' = Send(Call("createQueue", "", JSONstringify(createParsed), "confirmCreate"))
  /\ UNCHANGED <<loading, queues, editVars, activeTab, createJsonText, createConfirmOpen,
                 createParsed, csvText, bulkPreviewOpen, bulkRows, bulkPayloads, bulkBusy,
                 templateVars>>

\* a success that leaves the tab as it is
SameTab == activeTab
\* setActiveTab("list") after a successful create or batch create
ListTab == "list"

\* createQueue resolves or rejects: the rest of confirmCreate; on an ok
\* envelope it closes the confirmation, shows the list tab and calls
\* refresh()
CreateResponse(c, res) ==
  /\ BagIn(c, pending)
  /\ c.op = "createQueue"
  /\ res \in MutationEnvelopes
  /\ IF res = Thrown
     THEN /\ err' = Str(res.message)
          /\ createBusy' = FALSE
          /\ pending' = Done(c)
          /\ UNCHANGED <<patchResult, createConfirmOpen, activeTab, loading>>
     ELSE /\ patchResult' = prettyJson(res)
          /\ IF IsOk(res)
             THEN /\ createConfirmOpen' = FALSE
                  /\ activeTab' = ListTab
                  /\ loading' = TRUE
                  /\ err' = Null
                  /\ pending' = Done(c) (+) SetToBag({Call("listQueues", "", "", "confirmCreate")})
                  /\ UNCHANGED createBusy
             ELSE /\ createBusy' = FALSE
                  /\ pending' = Done(c)
                  /\ UNCHANGED <<createConfirmOpen, activeTab, loading, err>>
  /\ UNCHANGED <<queues, editVars, createJsonText, createParsed, bulkVars, templateVars>>

(***************************************************************************)
(* Bulk flow.                                                              *)
(***************************************************************************)
\* typing in the CSV box
TypeCsv(text) ==
  /\ activeTab = "bulk"
  /\ text \in CsvTexts
  /\ csvText' = text
  /\ UNCHANGED <<loading, err, queues, patchResult, editVars, activeTab, createVars,
                 bulkPreviewOpen, bulkRows, bulkPayloads, bulkBusy, bulkResult,
                 templateVars, pending>>

\* the Insert Sample CSV button
InsertSampleCsv ==
  /\ activeTab = "bulk"
  /\ csvText' = sampleCsvTemplate
  /\ UNCHANGED <<loading, err, queues, patchResult, editVars, activeTab, createVars,
                 bulkPreviewOpen, bulkRows, bulkPayloads, bulkBusy, bulkResult,
                 templateVars, pending>>

\* the Preview & Confirm button
openBulkPreview ==
  /\ activeTab = "bulk"
  /\ bulkResult' = ""
  /\ LET rows == parseCsv(csvText)
     IN IF Len(rows) = 0
        THEN /\ err' = Str("CSV had no data rows.")
             /\ UNCHANGED <<bulkRows, bulkPayloads, bulkPreviewOpen>>
        ELSE /\ err' = Null
             /\ bulkRows' = rows
             /\ bulkPayloads' = [i \in 1..Len(rows) |-> csvRowToCreatePayload(rows[i])]
             /\ bulkPreviewOpen' = TRUE
  /\ UNCHANGED <<loading, queues, patchResult, editVars, activeTab, createVars, csvText,
                 bulkBusy, templateVars, pending>>

\* Back, Close, or a click on the backdrop of the bulk preview
BackFromBulk ==
  /\ bulkPreviewOpen
  /\ bulkPreviewOpen' = FALSE
  /\ UNCHANGED <<loading, err, queues, patchResult, editVars, activeTab, createVars,
                 csvText, bulkRows, bulkPayloads, bulkBusy, bulkResult, templateVars,
                 pending>>

\* `disabled` of the Confirm Create button of the bulk preview
BulkDisabled == bulkBusy

\* the body of batchCreateQueues({template_id, queues})
BatchBody(templateId, queuesToCreate) ==
  JSONstringify(Obj(<<KV("template_id", Str(templateId)),
                      KV("queues", List(queuesToCreate))>>))

\* the Confirm Create button: confirmBulk() up to its await
confirmBulk ==
  /\ bulkPreviewOpen
  /\ ~BulkDisabled
  /\ InFlight < MaxInFlight
  /\ bulkResult' = ""
  /\ patchResult' = ""
  /\ LET queuesToCreate == ValidRows(bulkPayloads)
     IN IF selectedTemplateId = ""
        THEN /\ err' = Str("Please select a template before creating.")
             /\ UNCHANGED <<bulkBusy, pending>>
        ELSE IF Len(queuesToCreate) = 0
             THEN /\ err' = Str("No valid rows to create (all rows are missing queue_name).")
                  /\ UNCHANGED <<bulkBusy, pending>>
             ELSE /\ err' = Null
                  /\ bulkBusy' = TRUE
                  /\ pending' = Send(Call("batchCreateQueues", "",
                                          BatchBody(selectedTemplateId, queuesToCreate),
                                          "confirmBulk"))
  /\ UNCHANGED <<loading, queues, editVars, activeTab, createVars, csvText,
                 bulkPreviewOpen, bulkRows, bulkPayloads, templateVars>>

\* batchCreateQueues resolves or rejects: the rest of confirmBulk
BulkResponse(c, res) ==
  /\ BagIn(c, pending)
  /\ c.op = "batchCreateQueues"
  /\ res \in MutationEnvelopes
  /\ IF res = Thrown
     THEN /\ err' = Str(res.message)
          /\ bulkBusy' = FALSE
          /\ pending' = Done(c)
          /\ UNCHANGED <<bulkResult, bulkPreviewOpen, activeTab, loading>>
     ELSE /\ bulkResult' = prettyJson(res)
          /\ IF IsOk(res)
             THEN /\ bulkPreviewOpen' = FALSE
                  /\ activeTab' = ListTab
                  /\ loading' = TRUE
                  /\ err' = Null
                  /\ pending' = Done(c) (+) SetToBag({Call("listQueues", "", "", "confirmBulk")})
                  /\ UNCHANGED bulkBusy
             ELSE /\ bulkBusy' = FALSE
                  /\ pending' = Done(c)
                  /\ UNCHANGED <<bulkPreviewOpen, activeTab, loading, err>>
  /\ UNCHANGED <<queues, patchResult, editVars, createVars, csvText, bulkRows,
                 bulkPayloads, templateVars>>

(***************************************************************************)
(* The console: user actions interleaved with network completions.         *)
(***************************************************************************)
Calls == BagToSet(pending)
Envelopes ==
  ListEnvelopes \cup DetailEnvelopes("q1") \cup MutationEnvelopes \cup TemplateEnvelopes
    \cup (IF area = "pair" THEN DetailEnvelopes("q2") ELSE {})

Next ==
  \/ refresh /\ UNCHANGED <<otherVars, formVars>>
  \/ \E c \in Calls, res \in Envelopes : ListResponse(c, res) /\ UNCHANGED otherVars
  \/ \E q \in Range(queues) : openEdit(q) /\ UNCHANGED <<otherVars, formVars>>
  \/ \E c \in Calls, res \in Envelopes : DetailResponse(c, res) /\ UNCHANGED <<otherVars, formVars>>
  \/ \E text \in DraftTexts : TypeDraft(text) /\ UNCHANGED <<otherVars, formVars>>
  \/ ResetDraft /\ UNCHANGED <<otherVars, formVars>>
  \/ CloseEdit /\ UNCHANGED <<otherVars, formVars>>
  \/ computePatchAndOpenConfirm /\ UNCHANGED <<otherVars, formVars>>
  \/ BackToEdit /\ UNCHANGED <<otherVars, formVars>>
  \/ confirmPatch /\ UNCHANGED <<otherVars, formVars>>
  \/ \E c \in Calls, res \in Envelopes : PatchResponse(c, res) /\ UNCHANGED <<otherVars, formVars>>

Spec == Init /\ [][Next]_vars

\* every network call eventually resolves or rejects: the completions of a
\* commit (its PATCH, and the reload confirmPatch awaits) are not postponed
\* forever
PatchResolves ==
  \E c \in Calls, res \in Envelopes :
    PatchResponse(c, res) /\ UNCHANGED <<otherVars, formVars>>
CommitReloadResolves ==
  \E res \in Envelopes :
    ListResponse(Call("listQueues", "", "", "confirmPatch"), res) /\ UNCHANGED otherVars

LiveSpec == Init /\ [][Next]_vars /\ WF_vars(PatchResolves) /\ WF_vars(CommitReloadResolves)

(***************************************************************************)
(* The whole console: the edit session with delete, the tabs, and the      *)
(* create and bulk flows, on a small set of drafts.                        *)
(***************************************************************************)
ConsoleDraftTexts == {prettyJson(ExQ9B)}

\* a run exercises one area of the console: the edit session (with delete),
\* the create tab, or the bulk tab with its templates
Areas == {"edit", "create", "bulk"}
AreaTabs == [a \in Areas |-> IF a = "bulk" THEN {"list", "bulk"} ELSE {"list", "create"}]

ConsoleInit ==
  /\ AppInit
  /\ WorldInit
  /\ area \in Areas
  /\ fnName = "none"
  /\ fnOriginal = Null
  /\ fnEdited = Null
  /\ fnResult = Undefined

ConsoleNext ==
  \/ refresh /\ UNCHANGED <<otherVars, formVars>>
  \/ \E c \in Calls, res \in Envelopes : ListResponse(c, res) /\ UNCHANGED otherVars
  \/ \E q \in Range(queues) : area = "edit" /\ openEdit(q) /\ UNCHANGED <<otherVars, formVars>>
  \/ \E c \in Calls, res \in Envelopes : DetailResponse(c, res) /\ UNCHANGED <<otherVars, formVars>>
  \/ \E text \in ConsoleDraftTexts : TypeDraft(text) /\ UNCHANGED <<otherVars, formVars>>
  \/ CloseEdit /\ UNCHANGED <<otherVars, formVars>>
  \/ computePatchAndOpenConfirm /\ UNCHANGED <<otherVars, formVars>>
  \/ BackToEdit /\ UNCHANGED <<otherVars, formVars>>
  \/ confirmPatch /\ UNCHANGED <<otherVars, formVars>>
  \/ \E c \in Calls, res \in Envelopes : PatchResponse(c, res) /\ UNCHANGED <<otherVars, formVars>>
  \/ \E text \in DeleteInputs : TypeDeleteConfirm(text) /\ UNCHANGED <<otherVars, formVars>>
  \/ confirmDelete /\ UNCHANGED <<otherVars, formVars>>
  \/ \E c \in Calls, res \in Envelopes : DeleteResponse(c, res) /\ UNCHANGED <<otherVars, formVars>>
  \/ \E tab \in AreaTabs[area] : SetActiveTab(tab) /\ UNCHANGED otherVars
  \/ loadTemplates /\ UNCHANGED otherVars
  \/ \E c \in Calls, res \in Envelopes : TemplatesResponse(c, res) /\ UNCHANGED otherVars
  \/ \E id \in {"", "t1"} : SelectTemplate(id) /\ UNCHANGED otherVars
  \/ \E text \in CreateTexts : area = "create" /\ TypeCreate(text) /\ UNCHANGED otherVars
  \/ area = "create" /\ ResetTemplate /\ UNCHANGED otherVars
  \/ area = "create" /\ openCreateConfirm /\ UNCHANGED otherVars
  \/ BackFromCreate /\ UNCHANGED otherVars
  \/ confirmCreate /\ UNCHANGED otherVars
  \/ \E c \in Calls, res \in Envelopes : CreateResponse(c, res) /\ UNCHANGED otherVars
  \/ \E text \in CsvTexts : TypeCsv(text) /\ UNCHANGED otherVars
  \/ InsertSampleCsv /\ UNCHANGED otherVars
  \/ openBulkPreview /\ UNCHANGED otherVars
  \/ BackFromBulk /\ UNCHANGED otherVars
  \/ confirmBulk /\ UNCHANGED otherVars
  \/ \E c \in Calls, res \in Envelopes : BulkResponse(c, res) /\ UNCHANGED otherVars

ConsoleSpec == ConsoleInit /\ [][ConsoleNext]_vars

(***************************************************************************)
(* The edit session on a resource that the list returns without queue_id   *)
(* and without id: no detail fetch is ever sent for it.                    *)
(***************************************************************************)
IdInit ==
  /\ AppInit
  /\ WorldInit
  /\ area = "unidentified"
  /\ fnName = "none"
  /\ fnOriginal = Null
  /\ fnEdited = Null
  /\ fnResult = Undefined

IdNext ==
  \/ refresh /\ UNCHANGED <<otherVars, formVars>>
  \/ \E c \in Calls, res \in Envelopes : ListResponse(c, res) /\ UNCHANGED otherVars
  \/ \E q \in Range(queues) : openEdit(q) /\ UNCHANGED <<otherVars, formVars>>
  \/ \E text \in ConsoleDraftTexts : TypeDraft(text) /\ UNCHANGED <<otherVars, formVars>>
  \/ ResetDraft /\ UNCHANGED <<otherVars, formVars>>
  \/ CloseEdit /\ UNCHANGED <<otherVars, formVars>>
  \/ computePatchAndOpenConfirm /\ UNCHANGED <<otherVars, formVars>>
  \/ BackToEdit /\ UNCHANGED <<otherVars, formVars>>
  \/ confirmPatch /\ UNCHANGED <<otherVars, formVars>>
  \/ \E c \in Calls, res \in Envelopes : PatchResponse(c, res) /\ UNCHANGED <<otherVars, formVars>>
  \/ \E text \in DeleteInputs : TypeDeleteConfirm(text) /\ UNCHANGED <<otherVars, formVars>>
  \/ confirmDelete /\ UNCHANGED <<otherVars, formVars>>
  \/ \E c \in Calls, res \in Envelopes : DeleteResponse(c, res) /\ UNCHANGED <<otherVars, formVars>>

IdSpec == IdInit /\ [][IdNext]_vars

(***************************************************************************)
(* List reloads that fail in every way, around an edit session without     *)
(* commits.                                                                *)
(***************************************************************************)
ReloadInit ==
  /\ AppInit
  /\ WorldInit
  /\ area = "reload"
  /\ fnName = "none"
  /\ fnOriginal = Null
  /\ fnEdited = Null
  /\ fnResult = Undefined

ReloadNext ==
  \/ refresh /\ UNCHANGED <<otherVars, formVars>>
  \/ \E c \in Calls, res \in Envelopes : ListResponse(c, res) /\ UNCHANGED otherVars
  \/ \E q \in Range(queues) : openEdit(q) /\ UNCHANGED <<otherVars, formVars>>
  \/ \E c \in Calls, res \in Envelopes : DetailResponse(c, res) /\ UNCHANGED <<otherVars, formVars>>
  \/ \E text \in ConsoleDraftTexts : TypeDraft(text) /\ UNCHANGED <<otherVars, formVars>>
  \/ CloseEdit /\ UNCHANGED <<otherVars, formVars>>
  \/ computePatchAndOpenConfirm /\ UNCHANGED <<otherVars, formVars>>
  \/ BackToEdit /\ UNCHANGED <<otherVars, formVars>>

ReloadSpec == ReloadInit /\ [][ReloadNext]_vars

(***************************************************************************)
(* Function-level specification: the inputs are drawn from Values and the  *)
(* functions are applied to them.                                          *)
(***************************************************************************)
FnInit ==
  /\ AppInit
  /\ WorldInit
  /\ area = "edit"
  /\ fnName = "none"
  /\ fnOriginal \in Values
  /\ fnEdited \in Values
  /\ fnResult = Undefined

CallDeepDiff ==
  /\ fnName = "none"
  /\ fnName' = "deepDiff"
  /\ fnResult' = deepDiff(fnOriginal, fnEdited)
  /\ UNCHANGED <<fnOriginal, fnEdited, area>>
  /\ UNCHANGED <<appVars, worldVars>>

CallStripReadOnly ==
  /\ fnName = "none"
  /\ fnName' = "stripReadOnly"
  /\ fnResult' = stripReadOnly(fnOriginal)
  /\ UNCHANGED <<fnOriginal, fnEdited, area>>
  /\ UNCHANGED <<appVars, worldVars>>

CallCollectDiffLines ==
  /\ fnName = "none"
  /\ fnName' = "collectDiffLines"
  /\ fnResult' = collectDiffLines(fnOriginal, fnEdited, <<>>)
  /\ UNCHANGED <<fnOriginal, fnEdited, area>>
  /\ UNCHANGED <<appVars, worldVars>>

FnNext == CallDeepDiff \/ CallStripReadOnly \/ CallCollectDiffLines

FnSpec == FnInit /\ [][FnNext]_vars

(***************************************************************************)
(* Properties of the diff engine and the filter (FnSpec).                  *)
(***************************************************************************)
\* equality of JSON values as the data model defines it: list order
\* matters, the insertion order of a mapping's keys does not
RECURSIVE StructurallyIdentical(_, _)
StructurallyIdentical(v, w) ==
  /\ v.t = w.t
  /\ CASE v.t = "list" ->
            /\ Len(v.items) = Len(w.items)
            /\ \A i \in 1..Len(v.items) : StructurallyIdentical(v.items[i], w.items[i])
       [] v.t = "obj" ->
            /\ KeySet(v) = KeySet(w)
            /\ \A k \in KeySet(v) : StructurallyIdentical(Get(v, k), Get(w, k))
       [] OTHER -> v = w

\* the keys of a value at every depth, list elements included
RECURSIVE KeysDeep(_)
KeysDeep(v) ==
  CASE v.t = "list" -> UNION {KeysDeep(v.items[i]) : i \in 1..Len(v.items)}
    [] v.t = "obj" ->
         KeySet(v) \cup UNION {KeysDeep(v.members[i].v) : i \in 1..Len(v.members)}
    [] OTHER -> {}

\* no denied key at any depth
IsFiltered(v) == KeysDeep(v) \cap deny = {}

\* the keys of a diff result (none when it is absent)
DiffKeys(d) == IF IsMapping(d) THEN KeySet(d) ELSE {}

\* every key of the diff d of (o, e), at every level deepDiff recursed
\* into, is a key of e at the same path
RECURSIVE DiffWithinEdited(_, _, _)
DiffWithinEdited(d, o, e) ==
  IF IsMapping(o) /\ IsMapping(e) /\ d # Undefined
  THEN /\ IsMapping(d)
       /\ \A i \in 1..Len(d.members) :
            LET k == d.members[i].k
            IN /\ HasKey(e, k)
               /\ HasKey(o, k) => DiffWithinEdited(d.members[i].v, Get(o, k), Get(e, k))
  ELSE TRUE

RemoveAt(seq, i) == SubSeq(seq, 1, i - 1) \o SubSeq(seq, i + 1, Len(seq))

\* e is o with exactly one key removed, at the root or in a nested mapping
RECURSIVE OneKeyRemoved(_, _)
OneKeyRemoved(o, e) ==
  /\ IsMapping(o)
  /\ IsMapping(e)
  /\ \/ \E i \in 1..Len(o.members) : e.members = RemoveAt(o.members, i)
     \/ /\ ObjectKeys(o) = ObjectKeys(e)
        /\ \E i \in 1..Len(o.members) :
             /\ OneKeyRemoved(o.members[i].v, e.members[i].v)
             /\ \A j \in 1..Len(o.members) : j # i => o.members[j] = e.members[j]

\* C1: no-deletion invariant: every key of deepDiff(original, edited), at
\* every mapping level produced by recursion, is a key of edited at the same
\* path; when edited is original with exactly one key removed (at the root
\* or in a nested mapping) the diff is absent and the patch is empty.
C1_NoDeletion ==
  fnName = "deepDiff" =>
    /\ DiffWithinEdited(fnResult, fnOriginal, fnEdited)
    /\ OneKeyRemoved(fnOriginal, fnEdited) =>
         /\ fnResult = Undefined
         /\ PatchOf(fnResult) = Obj(<<>>)

\* a key was removed inside the nested mapping `s` and the diff is absent
C1_Witness ==
  /\ fnName = "deepDiff"
  /\ fnOriginal = ExSxy12
  /\ fnEdited = Obj(<<KV("s", Obj(<<KV("x", Num(1))>>))>>)
  /\ OneKeyRemoved(fnOriginal, fnEdited)
  /\ fnResult = Undefined

\* C5: diff-of-equal-is-absent: for every value v and every separately
\* constructed w that is structurally identical to v (same primitives, same
\* list elements in the same order, same key/value pairs) deepDiff(v, w) is
\* absent and the patch has zero keys.
C5_DiffOfEqualIsAbsent ==
  (/\ fnName = "deepDiff"
   /\ IsFiltered(fnOriginal)
   /\ IsFiltered(fnEdited)
   /\ StructurallyIdentical(fnOriginal, fnEdited)) =>
    /\ fnResult = Undefined
    /\ PatchOf(fnResult) = Obj(<<>>)

\* C6: atomic array replace: when the values at a key are both lists,
\* deepDiff emits nothing under that key if they are deeply equal element by
\* element in the same order, and the entire edited list otherwise.
C6_AtomicArrayReplace ==
  (/\ fnName = "deepDiff"
   /\ IsFiltered(fnOriginal)
   /\ IsFiltered(fnEdited)
   /\ IsMapping(fnOriginal)
   /\ IsMapping(fnEdited)) =>
    /\ \A k \in KeySet(fnOriginal) \cap KeySet(fnEdited) :
         LET ov == Get(fnOriginal, k)
             ev == Get(fnEdited, k)
         IN (IsArray(ov) /\ IsArray(ev)) =>
              IF StructurallyIdentical(ov, ev)
              THEN k \notin DiffKeys(fnResult)
              ELSE k \in DiffKeys(fnResult) /\ Get(fnResult, k) = ev
    /\ (fnOriginal = ExA123 /\ fnEdited = ExA12) => fnResult = ExA12
    /\ (fnOriginal = ExA123 /\ fnEdited = ExA321) => fnResult = ExA321

\* C7: nested recursion yields a sparse result: for two mappings the diff
\* contains key k exactly when k is a key of edited and either k is not a
\* key of original (the addition carries edited's value) or the diff of the
\* two values is non-absent (and is what is emitted); a key whose value is
\* unchanged never appears.
C7_SparseRecursion ==
  (fnName = "deepDiff" /\ IsMapping(fnOriginal) /\ IsMapping(fnEdited)) =>
    /\ fnResult # Undefined => IsMapping(fnResult) /\ Len(fnResult.members) > 0
    /\ \A k \in KeySet(fnOriginal) \cup KeySet(fnEdited) :
         LET ov == Get(fnOriginal, k)
             ev == Get(fnEdited, k)
         IN /\ k \in DiffKeys(fnResult) <=>
                 (HasKey(fnEdited, k) /\ (~HasKey(fnOriginal, k) \/ deepDiff(ov, ev) # Undefined))
            /\ (k \in DiffKeys(fnResult) /\ ~HasKey(fnOriginal, k)) => Get(fnResult, k) = ev
            /\ (k \in DiffKeys(fnResult) /\ HasKey(fnOriginal, k)) =>
                 Get(fnResult, k) = deepDiff(ov, ev)
            /\ (HasKey(fnOriginal, k) /\ ov = ev) => k \notin DiffKeys(fnResult)
    /\ (fnOriginal = ExSxy12 /\ fnEdited = ExSxy13) =>
         fnResult = Obj(<<KV("s", Obj(<<KV("y", Num(3))>>))>>)

\* the documented example: only the changed nested key is emitted
C7_Witness ==
  /\ fnName = "deepDiff"
  /\ fnOriginal = ExSxy12
  /\ fnEdited = ExSxy13
  /\ fnResult = Obj(<<KV("s", Obj(<<KV("y", Num(3))>>))>>)

\* C8: type-change atomic replace: when the two values at a key are not
\* both mappings and are not identical, deepDiff emits the complete edited
\* value under that key (an edited null included) and does not recurse.
C8_TypeChangeReplace ==
  (fnName = "deepDiff" /\ IsMapping(fnOriginal) /\ IsMapping(fnEdited)) =>
    /\ \A k \in KeySet(fnOriginal) \cap KeySet(fnEdited) :
         LET ov == Get(fnOriginal, k)
             ev == Get(fnEdited, k)
         IN (~(IsMapping(ov) /\ IsMapping(ev)) /\ ~StructurallyIdentical(ov, ev)) =>
              /\ k \in DiffKeys(fnResult)
              /\ Get(fnResult, k) = ev
    /\ (fnOriginal = ExAx1 /\ fnEdited = ExA5) => fnResult = ExA5

\* a nested mapping was replaced by null and null is what the diff carries
C8_Witness ==
  /\ fnName = "deepDiff"
  /\ fnOriginal = Obj(<<KV("s", Obj(<<KV("x", Num(1))>>))>>)
  /\ fnEdited = Obj(<<KV("s", Null)>>)
  /\ fnResult = Obj(<<KV("s", Null)>>)

\* C10: idempotent filter: stripReadOnly(stripReadOnly(v)) = stripReadOnly(v).
C10_IdempotentFilter ==
  fnName = "stripReadOnly" => stripReadOnly(fnResult) = fnResult

\* a value with two denied keys was filtered
C10_Witness ==
  /\ fnName = "stripReadOnly"
  /\ fnOriginal = ExIds
  /\ fnResult = Obj(<<KV("name", Str("A"))>>)

(***************************************************************************)
(* Properties of the edit session (Spec).                                  *)
(***************************************************************************)
\* the diff lines computed for the open preview
ComputedLines ==
  IF ConfirmModalOpen
  THEN collectDiffLines(stripReadOnly(originalQueue),
                        stripReadOnly(OrElse(editedParsed, Obj(<<>>))), <<>>)
  ELSE <<>>

\* a diff line names a denied key in its path or in the value it shows
LineMentionsDenied(line) ==
  \/ Range(line.path) \cap deny # {}
  \/ KeysDeep(line.shown) \cap deny # {}

\* the patch calls this step has put in flight
PatchCallsSent ==
  {c \in BagToSet(pending') : c.op = "patchQueue" /\ CopiesIn(c, pending') > CopiesIn(c, pending)}

\* the structural diff of the filtered pair, as the state stands
CurrentDiff ==
  deepDiff(stripReadOnly(originalQueue), stripReadOnly(safeParseJson(editJsonText).value))

\* C2: read-only stripping end-to-end: neither the patch computed by the
\* review nor any diff line of the preview mentions a denied key at any
\* depth, whatever the draft does to those keys; the snapshot
\* {queue_id:"q1", name:"A"} with the draft {queue_id:"q9", name:"B"}
\* yields the patch {name:"B"}.
C2_ReadOnlyNeverSurfaces ==
  /\ KeysDeep(computedPatch) \cap deny = {}
  /\ \A i \in 1..Len(ComputedLines) : ~LineMentionsDenied(ComputedLines[i])
  /\ \A i \in 1..Len(PreviewLines) : ~LineMentionsDenied(PreviewLines[i])
  /\ (ConfirmModalOpen /\ originalQueue = ExQ1A /\ editedParsed = ExQ9B)
       => computedPatch = Obj(<<KV("name", Str("B"))>>)

\* the draft changed queue_id and name; the preview shows and the patch
\* carries the name only
C2_Witness ==
  /\ ConfirmModalOpen
  /\ originalQueue = ExQ1A
  /\ editedParsed = ExQ9B
  /\ computedPatch = Obj(<<KV("name", Str("B"))>>)
  /\ Len(PreviewLines) = 2

\* C3: the body of every PATCH request sent by confirmPatch equals
\* deepDiff(stripReadOnly(originalQueue), stripReadOnly(parsed editJsonText))
\* for the baseline and the draft text as they stand when it is sent.
C3_PatchBodyIsCurrentDiff ==
  [][\A c \in PatchCallsSent :
       /\ safeParseJson(editJsonText).ok
       /\ CurrentDiff # Undefined
       /\ c.body = JSONstringify(CurrentDiff)]_vars

\* C4: empty-diff blocks commit: whenever the structural diff of the filtered
\* pair is empty, a review still opens the preview, with the Confirm PATCH
\* button disabled and the explanatory message shown, and no PATCH request
\* is sent while the diff of the baseline and the draft is empty.
C4_EmptyDiffBlocksCommit ==
  /\ [][(/\ safeParseJson(editJsonText).ok
         /\ CurrentDiff = Undefined
         /\ computePatchAndOpenConfirm)
          => /\ patchConfirmOpen'
             /\ computedPatch' = Obj(<<>>)
             /\ ConfirmDisabled'
             /\ NoChangesShown'
             /\ err' = Null]_vars
  /\ [][PatchCallsSent # {}
          => ~(safeParseJson(editJsonText).ok /\ CurrentDiff = Undefined)]_vars
  /\ [](NoChangesShown => ConfirmDisabled)

\* C9: for a snapshot that is a mapping, what the review offers for
\* confirmation (and confirmPatch sends) is a key-value mapping, never a
\* list, a string or another non-mapping value.
C9_OnlyMappingsOffered ==
  (ConfirmModalOpen /\ IsMapping(originalQueue) /\ ~PatchIsEmpty(computedPatch))
    => IsMapping(computedPatch)

(***************************************************************************)
(* Properties of the filter and of the renderer (FnSpec).                  *)
(***************************************************************************)
\* r is v with the denied keys removed and nothing else changed: the other
\* keys in their order with their filtered values, lists of the same length
\* in the same order, everything else as it was
RECURSIVE SameButDenied(_, _)
SameButDenied(v, r) ==
  CASE v.t = "list" ->
         /\ IsArray(r)
         /\ Len(r.items) = Len(v.items)
         /\ \A i \in 1..Len(v.items) : SameButDenied(v.items[i], r.items[i])
    [] v.t = "obj" ->
         /\ IsMapping(r)
         /\ ObjectKeys(r) = SelectSeq(ObjectKeys(v), LAMBDA k : k \notin deny)
         /\ \A k \in KeySet(v) \ deny : SameButDenied(Get(v, k), Get(r, k))
    [] OTHER -> r = v

\* C11: for every JSON value v, stripReadOnly(v) holds none of the seven
\* denied keys at any depth (nested mappings and mappings inside lists
\* included) and is otherwise structurally equal to v: non-denied keys keep
\* their filtered values, lists keep length and order, primitives and null
\* come back unchanged.
C11_FilterRemovesOnlyDenied ==
  fnName = "stripReadOnly" =>
    /\ KeysDeep(fnResult) \cap deny = {}
    /\ SameButDenied(fnOriginal, fnResult)
    /\ (~IsArray(fnOriginal) /\ ~IsMapping(fnOriginal)) => fnResult = fnOriginal

\* all seven denied keys were removed at the root, in a nested mapping and
\* in a mapping inside a list
C11_Witness ==
  /\ fnName = "stripReadOnly"
  /\ fnOriginal = ExAllDenied
  /\ deny \subseteq KeySet(fnOriginal)
  /\ fnResult = Obj(<<KV("name", Str("A")),
                      KV("s", Obj(<<KV("x", Num(1))>>)),
                      KV("a", List(<<Obj(<<KV("y", Num(2))>>), Num(1)>>))>>)

\* the lines of a given kind at a given path
LinesAt(lines, kind, path) ==
  {i \in 1..Len(lines) : lines[i].kind = kind /\ lines[i].path = path}

\* for every key of o missing from e, at the root or in a nested mapping
\* reached by recursion: one removal line at its path carrying o's value, no
\* addition line at that path, and the key is not in the diff d
RECURSIVE RemovalsShownNotSent(_, _, _, _, _)
RemovalsShownNotSent(o, e, path, lines, d) ==
  \A k \in KeySet(o) :
    LET p == Append(path, k)
    IN IF ~HasKey(e, k)
       THEN /\ \E i \in LinesAt(lines, "remove", p) :
                 /\ lines[i].shown = Get(o, k)
                 /\ lines[i].text = "- " \o JoinWith(p, ".") \o ": " \o JSONstringify(Get(o, k))
            /\ LinesAt(lines, "add", p) = {}
            /\ k \notin DiffKeys(d)
       ELSE (IsMapping(Get(o, k)) /\ IsMapping(Get(e, k))) =>
              RemovalsShownNotSent(Get(o, k), Get(e, k), p, lines,
                                   IF k \in DiffKeys(d) THEN Get(d, k) ELSE Undefined)

\* some key of o is missing from e, at the root or in a nested mapping
RECURSIVE SomeKeyRemoved(_, _)
SomeKeyRemoved(o, e) ==
  /\ IsMapping(o)
  /\ IsMapping(e)
  /\ \E k \in KeySet(o) : ~HasKey(e, k) \/ SomeKeyRemoved(Get(o, k), Get(e, k))

\* C12: render and patch disagree on removals: for filtered mappings where
\* a key k of original is missing from edited (at the root or in a nested
\* mapping reached by recursion), collectDiffLines has a removal line for
\* k's path carrying original's value and no addition line for that path,
\* while deepDiff does not contain k; {a:1,b:2} against {a:1} gives a
\* removal line for b and an empty patch.
C12_RemovalShownNotSent ==
  (/\ fnName = "collectDiffLines"
   /\ IsFiltered(fnOriginal)
   /\ IsFiltered(fnEdited)
   /\ IsMapping(fnOriginal)
   /\ IsMapping(fnEdited)) =>
    /\ RemovalsShownNotSent(fnOriginal, fnEdited, <<>>, fnResult,
                            deepDiff(fnOriginal, fnEdited))
    /\ (fnOriginal = ExAB12 /\ fnEdited = ExA1) =>
         /\ fnResult = <<DiffLine("remove", <<"b">>, Num(2))>>
         /\ fnResult[1].text = "- b: 2"
         /\ PatchOf(deepDiff(fnOriginal, fnEdited)) = Obj(<<>>)

\* a key was removed inside the nested mapping `s` while another changed:
\* the removal is shown and only the change is in the diff
C12_Witness ==
  /\ fnName = "collectDiffLines"
  /\ fnOriginal = Obj(<<KV("s", Obj(<<KV("x", Num(1)), KV("y", Num(2))>>)), KV("a", Num(1))>>)
  /\ fnEdited = Obj(<<KV("s", Obj(<<KV("y", Num(1))>>)), KV("a", Num(1))>>)
  /\ SomeKeyRemoved(fnOriginal, fnEdited)
  /\ LinesAt(fnResult, "remove", <<"s", "x">>) # {}
  /\ deepDiff(fnOriginal, fnEdited) = Obj(<<KV("s", Obj(<<KV("y", Num(1))>>))>>)

(***************************************************************************)
(* Properties of review, detail fetch and commit (Spec, LiveSpec).         *)
(***************************************************************************)
\* the parser's complaint about the text that is not JSON
ParseComplaint == Str(safeParseJson(NotJson).error)

\* C14: parse failure is recoverable: a review of a draft that is not valid
\* JSON sets the error to the parser's complaint, does not open the preview,
\* does not compute or replace the patch, sends no request and leaves the
\* draft, the baseline and the open session unchanged; no PATCH is sent
\* while the last review is the failed one (its complaint still standing).
C14_ParseFailureBlocksCommit ==
  /\ [][(~safeParseJson(editJsonText).ok /\ computePatchAndOpenConfirm)
          => /\ err' = Str(safeParseJson(editJsonText).error)
             /\ UNCHANGED <<patchConfirmOpen, computedPatch, editedParsed, pending,
                            editJsonText, originalQueue, editing>>]_vars
  /\ [][(~safeParseJson(editJsonText).ok /\ err = ParseComplaint)
          => PatchCallsSent = {}]_vars

\* the calls to the detail endpoint in flight
DetailCalls == {c \in BagToSet(pending) : c.op = "getQueue"}

\* the session is open and the draft is not the serialization of the
\* baseline: the user has typed
UserHasTyped == ~Falsy(editing) /\ editJsonText # prettyJson(originalQueue)

\* C15: when the user has changed the draft after opening a resource and
\* before its detail fetch resolves, the detail that arrives does not
\* replace the draft text.
C15_DetailKeepsTypedDraft ==
  [][(/\ UserHasTyped
      /\ originalQueue \in Range(queues)
      /\ \E c \in DetailCalls, res \in Envelopes : DetailResponse(c, res))
       => editJsonText' = editJsonText]_vars

\* a PATCH completion of this step, by outcome
PatchSettles == \E c \in Calls : PatchResponse(c, OkEnvelope(Null))
PatchFails == \E c \in Calls, res \in {ErrEnvelope, Thrown} : PatchResponse(c, res)

SentNow(op) ==
  {c \in BagToSet(pending') : c.op = op /\ CopiesIn(c, pending') > CopiesIn(c, pending)}

\* how many calls of an operation are in flight
CountCalls(op) ==
  BagCardinality([c \in {d \in BagToSet(pending) : d.op = op} |-> CopiesIn(c, pending)])

\* the confirmation inputs that spell DELETE once trimmed and upper-cased
PassingInputs ==
  {<<"d", "e", "l", "e", "t", "e">>,
   <<" ", "D", "E", "L", "E", "T", "E", " ">>,
   <<"D", "e", "l", "e", "t", "e">>}

\* C13: delete confirmation: confirmDelete sends a DELETE request only if
\* the confirmation input, trimmed and upper-cased, equals "DELETE" ("delete",
\* " DELETE " and "Delete" pass, "DEL" and the empty input fail); for any
\* other input no request is sent, an error is shown and the edit session
\* stays open.
C13_DeleteNeedsConfirmation ==
  [][confirmDelete =>
       IF deleteConfirmText \in PassingInputs
       THEN /\ SentNow("deleteQueue") = {Call("deleteQueue", QueueId(editing), "", "confirmDelete")}
            /\ CopiesIn(Call("deleteQueue", QueueId(editing), "", "confirmDelete"), pending')
                 = CopiesIn(Call("deleteQueue", QueueId(editing), "", "confirmDelete"), pending) + 1
       ELSE /\ pending' = pending
            /\ err' = Str("To delete, type DELETE in the confirmation box.")
            /\ editing' = editing
            /\ ~Falsy(editing')]_vars

\* " DELETE " was typed and the DELETE request is in flight
C13_Witness ==
  /\ deleteConfirmText = <<" ", "D", "E", "L", "E", "T", "E", " ">>
  /\ ~Falsy(editing)
  /\ CountCalls("deleteQueue") = 1
  /\ err = Null

\* C16: stale-response discard: when the edit session that issued a detail
\* fetch has been closed before the response arrives, the response changes
\* no session state: it does not reopen the edit modal and does not replace
\* the resource, the baseline or the draft.
C16_StaleResponseDiscarded ==
  [][(/\ Falsy(editing)
      /\ \E c \in DetailCalls, res \in Envelopes : DetailResponse(c, res))
       => UNCHANGED <<editing, originalQueue, editJsonText>>]_vars

\* a mutation completion of this step, by outcome
MutationSucceeds(Response(_, _)) == \E c \in Calls : Response(c, OkEnvelope(Null))
MutationFails(Response(_, _)) ==
  \E c \in Calls, res \in {ErrEnvelope, Thrown} : Response(c, res)

\* a successful mutation issues one reload, awaited by `handler`, and does
\* not touch the list itself
ReloadIssued(handler) ==
  /\ SentNow("listQueues") = {Call("listQueues", "", "", handler)}
  /\ loading'
  /\ queues' = queues

\* what every mutation does, whatever the tab: a success closes its session
\* and issues a full reload, a failure issues none, and the list changes
\* only when a reload returns, to the whole list returned
MutationsReload ==
  /\ [][MutationSucceeds(PatchResponse)
          => (editing' = Null /\ ~ConfirmModalOpen' /\ ReloadIssued("confirmPatch"))]_vars
  /\ [][MutationSucceeds(DeleteResponse)
          => (editing' = Null /\ ~ConfirmModalOpen' /\ ReloadIssued("confirmDelete"))]_vars
  /\ [][MutationSucceeds(CreateResponse)
          => (~createConfirmOpen' /\ ReloadIssued("confirmCreate"))]_vars
  /\ [][MutationSucceeds(BulkResponse)
          => (~bulkPreviewOpen' /\ ReloadIssued("confirmBulk"))]_vars
  /\ [][(\/ MutationFails(PatchResponse)
         \/ MutationFails(DeleteResponse)
         \/ MutationFails(CreateResponse)
         \/ MutationFails(BulkResponse))
          => (SentNow("listQueues") = {} /\ queues' = queues)]_vars
  /\ [][queues' # queues
          => \E c \in Calls, items \in ListResponses :
               /\ ListResponse(c, OkEnvelope(Obj(<<KV("queues", List(items))>>)))
               /\ queues' = items]_vars

\* C19 as stated: every successful mutation (patch, delete, create or batch
\* create) closes its confirmation or edit session, returns the console to
\* the list view, and issues a full list reload whose result replaces the
\* whole queue list; no mutation patches the list locally, and an
\* unsuccessful mutation issues no reload.
C19_MutationReturnsToList ==
  /\ MutationsReload
  /\ [][(\/ MutationSucceeds(PatchResponse)
         \/ MutationSucceeds(DeleteResponse)
         \/ MutationSucceeds(CreateResponse)
         \/ MutationSucceeds(BulkResponse))
          => activeTab' = "list"]_vars

\* C19, amended: every successful mutation closes its confirmation or edit
\* session and issues a full list reload whose result replaces the whole
\* queue list; a successful create or batch create also shows the list tab,
\* while a successful patch or delete leaves the active tab as it is; no
\* mutation patches the list locally, and an unsuccessful mutation issues
\* no reload.
C19_MutationReloads ==
  /\ MutationsReload
  /\ [][(MutationSucceeds(CreateResponse) \/ MutationSucceeds(BulkResponse))
          => activeTab' = "list"]_vars
  /\ [][(MutationSucceeds(PatchResponse) \/ MutationSucceeds(DeleteResponse))
          => activeTab' = activeTab]_vars

\* a PATCH succeeded after the user had left the list tab: the session is
\* closed, the reload is in flight and the create tab is still showing
C19_Witness ==
  /\ activeTab = "create"
  /\ editing = Null
  /\ patchResult = prettyJson(OkEnvelope(Null))
  /\ BagIn(Call("listQueues", "", "", "confirmPatch"), pending)
  /\ loading

\* C20: no re-entrant commit: from the moment confirmPatch (confirmCreate,
\* confirmBulk) sends its request until the request and the reload that
\* follows it have completed, its confirm button is disabled, so at most
\* one PATCH (create, batch create) request is in flight at any time.
C20_NoReentrantCommit ==
  /\ CountCalls("patchQueue") <= 1
  /\ CountCalls("createQueue") <= 1
  /\ CountCalls("batchCreateQueues") <= 1
  /\ (CountCalls("patchQueue") = 1 \/ BagIn(Call("listQueues", "", "", "confirmPatch"), pending))
       => (patchBusy /\ ConfirmDisabled)
  /\ (CountCalls("createQueue") = 1 \/ BagIn(Call("listQueues", "", "", "confirmCreate"), pending))
       => (createBusy /\ CreateDisabled)
  /\ (CountCalls("batchCreateQueues") = 1 \/ BagIn(Call("listQueues", "", "", "confirmBulk"), pending))
       => (bulkBusy /\ BulkDisabled)

\* a PATCH is in flight, the preview is open on a non-empty patch and
\* Confirm PATCH is disabled
C20_Witness ==
  /\ CountCalls("patchQueue") = 1
  /\ ConfirmModalOpen
  /\ ~PatchIsEmpty(computedPatch)
  /\ patchBusy
  /\ ConfirmDisabled

(***************************************************************************)
(* Properties of delete, identifiers and closing the session.              *)
(***************************************************************************)
\* C21: while a DELETE request issued by confirmDelete is in flight, the
\* Delete action is disabled: no second DELETE request is submitted before
\* the first one has resolved.
C21_NoReentrantDelete ==
  [][CountCalls("deleteQueue") >= 1 => SentNow("deleteQueue") = {}]_vars

\* the resource has neither a queue_id nor an id field
NoIdentifier(q) == IsMapping(q) /\ ~HasKey(q, "queue_id") /\ ~HasKey(q, "id")

\* C22: missing-identifier error: when the resource being edited has
\* neither queue_id nor id, each of the detail fetch, the patch commit and
\* the delete aborts with an error shown, sends no request and leaves the
\* session open.
C22_MissingIdAbortsAction ==
  /\ [][\A q \in Range(queues) :
          (NoIdentifier(q) /\ openEdit(q))
            => (err' = Str("Missing queue id") /\ pending' = pending /\ editing' = q)]_vars
  /\ [][(NoIdentifier(editing) /\ (confirmPatch \/ confirmDelete))
          => (pending' = pending /\ err' # Null /\ editing' = editing)]_vars

\* a session opens in this step
SessionOpens == Falsy(editing) /\ ~Falsy(editing')

\* C23: cancel/close is unconditional: closing the edit modal, from the
\* editor or from the preview, ends the session, and what it discards is
\* never observed again: every session that opens afterwards starts with
\* the draft seeded from its resource, no computed patch, no parsed draft
\* and the confirm modal closed, so that a PATCH can only carry a patch
\* computed by a review of the session that sends it.
C23_CloseDiscardsDraft ==
  /\ [][CloseEdit => (editing' = Null /\ ~ConfirmModalOpen')]_vars
  /\ [][SessionOpens
          => /\ editJsonText' = prettyJson(editing')
             /\ computedPatch' = Null
             /\ editedParsed' = Null
             /\ ~patchConfirmOpen']_vars

(***************************************************************************)
(* Properties of the list reload (ReloadSpec, Spec).                       *)
(***************************************************************************)
\* the ways a list reload fails, and the message each one shows
ListFailures == {ErrEnvelope, ErrDataMessage, ErrBare, Thrown}
ShownFor(res) ==
  CASE res = ErrEnvelope -> "Bad Request"
    [] res = ErrDataMessage -> "Rate limited"
    [] res = ErrBare -> "API error"
    [] res = Thrown -> "Failed to fetch"

\* C24: list reload failure is non-corrupting: when a list reload returns a
\* non-ok envelope or throws, the queue list keeps its contents, the loading
\* flag is cleared and the error shown is the envelope's message, else its
\* data.message, else "API error" (for a thrown error, its message).
C24_ReloadFailureKeepsList ==
  [][\A c \in Calls, res \in ListFailures :
       ListResponse(c, res)
         => (queues' = queues /\ ~loading' /\ err' = Str(ShownFor(res)))]_vars

\* a reload failed with the message under data while the list was loaded:
\* the list is still there and the message is shown
C24_Witness ==
  /\ queues = <<ListQ1>>
  /\ ~loading
  /\ err = Str("Rate limited")
  /\ pending = EmptyBag

(***************************************************************************)
(* Properties of comparison, rendering order and absence (FnSpec).         *)
(***************************************************************************)
\* C25: key insertion order is irrelevant for comparison: when two filtered
\* values differ only in the order in which the keys of their mappings were
\* inserted, mappings inside lists included, deepDiff of the two is absent
\* and collectDiffLines of the two is empty.
C25_KeyOrderIrrelevant ==
  (/\ IsFiltered(fnOriginal)
   /\ IsFiltered(fnEdited)
   /\ StructurallyIdentical(fnOriginal, fnEdited)) =>
    /\ fnName = "deepDiff" => fnResult = Undefined
    /\ fnName = "collectDiffLines" => fnResult = <<>>

\* the position of a key in the lexicographic order of the keys in use
KeyIndex(k) == CHOOSE i \in 1..Len(KeyOrder) : KeyOrder[i] = k

\* path p comes before path q in a depth-first visit with sorted keys
RECURSIVE PathBefore(_, _)
PathBefore(p, q) ==
  IF Len(p) = 0 THEN Len(q) > 0
  ELSE IF Len(q) = 0 THEN FALSE
  ELSE IF Head(p) = Head(q) THEN PathBefore(Tail(p), Tail(q))
  ELSE KeyIndex(Head(p)) < KeyIndex(Head(q))

\* consecutive lines are a removal and an addition at one path, or move on
\* to a later path
LinesInVisitOrder(lines) ==
  \A i \in 1..(Len(lines) - 1) :
    \/ /\ lines[i].path = lines[i + 1].path
       /\ lines[i].kind = "remove"
       /\ lines[i + 1].kind = "add"
    \/ /\ lines[i].path # lines[i + 1].path
       /\ PathBefore(lines[i].path, lines[i + 1].path)

\* every line reads sign, dot-joined path, colon, serialized value
LinesDotJoined(lines) ==
  \A i \in 1..Len(lines) :
    lines[i].text = (IF lines[i].kind = "add" THEN "+ " ELSE "- ")
                      \o JoinWith(lines[i].path, ".") \o ": " \o JSONstringify(lines[i].shown)

\* a key on both sides whose values differ and are not both mappings shows
\* exactly one removal line followed at once by one addition line
RECURSIVE ChangesShownAsPairs(_, _, _, _)
ChangesShownAsPairs(a, b, path, lines) ==
  \A k \in KeySet(a) \cap KeySet(b) :
    LET p == Append(path, k)
        av == Get(a, k)
        bv == Get(b, k)
    IN IF IsMapping(av) /\ IsMapping(bv)
       THEN ChangesShownAsPairs(av, bv, p, lines)
       ELSE ~StructurallyIdentical(av, bv) =>
              \E i \in 1..(Len(lines) - 1) :
                /\ lines[i] = DiffLine("remove", p, av)
                /\ lines[i + 1] = DiffLine("add", p, bv)
                /\ LinesAt(lines, "remove", p) = {i}
                /\ LinesAt(lines, "add", p) = {i + 1}

\* the value with the keys of every mapping outside lists inserted in
\* lexicographic order
RECURSIVE InsertedInKeyOrder(_)
InsertedInKeyOrder(v) ==
  IF IsMapping(v)
  THEN LET sk == SortKeys(KeySet(v))
       IN Obj([i \in 1..Len(sk) |-> KV(sk[i], InsertedInKeyOrder(Get(v, sk[i])))])
  ELSE v

\* the lines follow the sorted depth-first visit, with dot-joined paths and
\* a removal/addition pair per changed value
RenderedInOrder ==
  /\ LinesInVisitOrder(fnResult)
  /\ LinesDotJoined(fnResult)
  /\ ChangesShownAsPairs(fnOriginal, fnEdited, <<>>, fnResult)
  /\ (fnOriginal = ExSxy12 /\ fnEdited = ExSxy13) =>
       (fnResult[1].text = "- s.y: 2" /\ fnResult[2].text = "+ s.y: 3")

\* C26: deterministic render order: for filtered mappings, collectDiffLines
\* visits the union of the key sets in lexicographic order at every level,
\* depth-first, with dot-joined paths, showing a changed leaf, list or
\* type-changed value as one removal line followed at once by one addition
\* line; the line sequence is the same whatever the insertion order of the
\* keys of the mappings outside lists.
C26_DeterministicRenderOrder ==
  (/\ fnName = "collectDiffLines"
   /\ IsFiltered(fnOriginal)
   /\ IsFiltered(fnEdited)
   /\ IsMapping(fnOriginal)
   /\ IsMapping(fnEdited)) =>
    /\ RenderedInOrder
    /\ fnResult = collectDiffLines(InsertedInKeyOrder(fnOriginal),
                                   InsertedInKeyOrder(fnEdited), <<>>)

\* e is o with keys removed and nothing else changed, at the root or in
\* nested mappings
RECURSIVE KeysOnlyRemoved(_, _)
KeysOnlyRemoved(o, e) ==
  /\ IsMapping(o)
  /\ IsMapping(e)
  /\ KeySet(e) \subseteq KeySet(o)
  /\ \A k \in KeySet(e) : Get(o, k) = Get(e, k) \/ KeysOnlyRemoved(Get(o, k), Get(e, k))

\* no level of the diff d of (o, e) that came from two mappings is a
\* mapping without keys
RECURSIVE NoEmptyLevel(_, _, _)
NoEmptyLevel(d, o, e) ==
  (IsMapping(o) /\ IsMapping(e) /\ d # Undefined) =>
    /\ IsMapping(d)
    /\ Len(d.members) > 0
    /\ \A k \in KeySet(d) : HasKey(o, k) => NoEmptyLevel(Get(d, k), Get(o, k), Get(e, k))

RECURSIVE RemovalsDisplayed(_, _, _, _)
RemovalsDisplayed(o, e, path, lines) ==
  (IsMapping(o) /\ IsMapping(e)) =>
    \A k \in KeySet(o) :
      IF HasKey(e, k)
      THEN RemovalsDisplayed(Get(o, k), Get(e, k), Append(path, k), lines)
      ELSE LinesAt(lines, "remove", Append(path, k)) # {}

\* C28: whenever the preview is open and some key of the filtered original
\* is missing from the filtered edited value, a removal line for that key
\* is displayed, also when the structural diff is empty because removals
\* are the only differences.
C28_RemovalLinesDisplayed ==
  (ConfirmModalOpen /\ IsMapping(editedParsed)) =>
    RemovalsDisplayed(stripReadOnly(originalQueue), stripReadOnly(editedParsed),
                      <<>>, PreviewLines)

\* a list reload starts or completes in this step
ReloadStep == refresh \/ \E c \in Calls, res \in Envelopes : ListResponse(c, res)

\* C29: a background list reload, whether it succeeds or fails and at
\* whatever point of an edit session it starts or completes, leaves the
\* draft text, the baseline, the resource being edited, the computed patch
\* and the open/closed state of the edit and confirm modals unchanged.
C29_ReloadLeavesSession ==
  [][ReloadStep
       => /\ UNCHANGED <<editJsonText, originalQueue, editing, computedPatch,
                         editedParsed, patchConfirmOpen>>
          /\ ConfirmModalOpen' = ConfirmModalOpen
          /\ Falsy(editing') = Falsy(editing)]_vars

\* a reload failed while the preview was open on a typed draft: the
\* session, the draft, the baseline and the patch are all still there
C29_Witness ==
  /\ ConfirmModalOpen
  /\ originalQueue = FullQ1
  /\ editJsonText = prettyJson(ExQ9B)
  /\ computedPatch = Obj(<<KV("name", Str("B"))>>)
  /\ err = Str("Bad Request")
  /\ ~loading
  /\ pending = EmptyBag

\* the session is open on the resource the call was sent for, as it was
\* seeded: the user has not typed
SessionAsSeeded(c) ==
  /\ ~Falsy(editing)
  /\ QueueIdOrEmpty(editing) = c.id
  /\ originalQueue = editing
  /\ editJsonText = prettyJson(originalQueue)

\* C30: baseline reseed: when the detail fetch started by openEdit succeeds
\* while the session is still open on that resource and the user has not
\* typed, the baseline and the draft are both replaced by the full detail,
\* so that a review requested right afterwards finds an empty diff; when the
\* fetch fails, the session stays open with the list payload as baseline
\* and draft, and the error is shown.
C30_BaselineReseed ==
  /\ [][\A c \in DetailCalls : \A full \in DetailsOf(c.id) :
          (DetailResponse(c, OkEnvelope(full)) /\ SessionAsSeeded(c))
            => /\ originalQueue' = full
               /\ editing' = full
               /\ editJsonText' = prettyJson(full)
               /\ safeParseJson(editJsonText').ok
               /\ deepDiff(stripReadOnly(originalQueue'),
                           stripReadOnly(safeParseJson(editJsonText').value)) = Undefined]_vars
  /\ [][(/\ patchConfirmOpen'
         /\ originalQueue = FullQ1
         /\ computePatchAndOpenConfirm
         /\ editJsonText = prettyJson(FullQ1))
          => (computedPatch' = Obj(<<>>) /\ NoChangesShown' /\ ConfirmDisabled')]_vars
  /\ [][\A c \in DetailCalls, res \in {ErrEnvelope, Thrown} :
          (DetailResponse(c, res) /\ SessionAsSeeded(c))
            => /\ UNCHANGED <<editing, originalQueue, editJsonText>>
               /\ ~Falsy(editing')
               /\ err' = Str(IF res = Thrown THEN "Failed to fetch" ELSE "Bad Request")]_vars

\* the detail arrived on an untouched session and the review that followed
\* found nothing to send
C30_Witness ==
  /\ ConfirmModalOpen
  /\ editing = FullQ1
  /\ originalQueue = FullQ1
  /\ editJsonText = prettyJson(FullQ1)
  /\ editedParsed = FullQ1
  /\ computedPatch = Obj(<<>>)
  /\ NoChangesShown
  /\ err = Null

(***************************************************************************)
(* The worker (the proxy): one request at a time through fetch(), the API  *)
(* key gate, the router, the token cache and the handlers.  A path is the  *)
(* sequence of its segments; the clock advances in steps of TickMs.        *)
(***************************************************************************)
TickMs == 15000
\* the clock stops at MaxNow
MaxNow == 30000
Concurrency == 4

Req(method, path, key, ct, body) ==
  [method |-> method, path |-> path, key |-> key, ct |-> ct, body |-> body]
Resp(status, error, body) == [status |-> status, error |-> error, body |-> body]

\* the bodies of bulk uploads: five named rows, a row without a name between
\* two named ones, only rows without a name, and no data row
CsvFive == <<"queue_name", "\n", "A", "\n", "B", "\n", "C", "\n", "D", "\n", "E">>
CsvGap ==
  <<"queue_name", ",", "queue_description", "\n", "A", ",", "x", "\n",
    ",", "x", "\n", "B", ",", "x">>
CsvUnnamed == <<"queue_name", ",", "queue_description", "\n", ",", "x", "\n", ",", "y">>
BulkBodies == {CsvFive, CsvGap, CsvUnnamed, CsvHeaderOnly}
\* a body of text, a JSON body { csv: "..." }, and a body that is not JSON
TextBody(text) == [t |-> "text", text |-> text]
JsonCsv(text) == [t |-> "csvjson", csv |-> text]
Unparsable == [t |-> "invalid"]

PathQueues == <<"api", "queues">>
PathQueue == <<"api", "queues", "q1">>
PathBulk == <<"api", "queues", "bulk">>
Paths ==
  {PathQueues, PathQueue, PathBulk, <<"api", "queues", "q1", "agents">>,
   <<"api", "queue-templates">>, <<"health">>, <<>>, <<"ui", "index.html">>,
   <<"favicon.ico">>}
Methods == {"GET", "POST", "PATCH", "DELETE", "OPTIONS"}
HeaderKeys == {"", "k", "other"}

\* the content type and body a request carries
BodiesOf(method, path) ==
  IF method = "POST" /\ path = PathBulk
  THEN {<<"text/csv", TextBody(b)>> : b \in BulkBodies}
         \cup {<<"application/json", JsonCsv(CsvGap)>>, <<"application/json", Unparsable>>,
               <<"", TextBody(CsvGap)>>}
  ELSE IF method \in {"POST", "PATCH"}
       THEN {<<"application/json", CreateDraft>>, <<"application/json", Num(1)>>,
             <<"application/json", Unparsable>>, <<"text/plain", CreateDraft>>}
       ELSE {<<"", Null>>}
\* in the area "proxy" every kind of request, with bulk uploads that need
\* no upstream request; in the area "upload" the bulk uploads
SmallBodies == {TextBody(CsvUnnamed), TextBody(CsvHeaderOnly), Unparsable}
Requests ==
  IF area = "proxy"
  THEN UNION {{Req(m, p, k, b[1], b[2]) :
                 b \in {c \in BodiesOf(m, p) : p = PathBulk => c[2] \in SmallBodies
                                                             \/ c[1] = ""}} :
                m \in Methods, p \in Paths, k \in HeaderKeys}
  ELSE {Req("POST", PathBulk, "", b[1], b[2]) :
          b \in {c \in BodiesOf("POST", PathBulk) : c[2] \notin SmallBodies /\ c[1] # ""}}

\* url.pathname.startsWith("/api/")
UnderApi(path) == Len(path) >= 2 /\ path[1] = "api"

\* url.pathname.match(/^\/api\/queues\/([^/]+)$/): the id, or "" without match
MatchQueueId(path) ==
  IF Len(path) = 3 /\ path[1] = "api" /\ path[2] = "queues" /\ path[3] # ""
  THEN path[3] ELSE ""

\* the handler handleApi dispatches to
handleApi(req) ==
  IF req.path = PathQueues /\ req.method = "GET" THEN "handleListQueues"
  ELSE IF req.path = PathQueues /\ req.method = "POST" THEN "handleCreateQueue"
  ELSE IF req.path = PathBulk /\ req.method = "POST" THEN "handleBulkCreate"
  ELSE IF MatchQueueId(req.path) # "" /\ req.method = "PATCH" THEN "handlePatchQueue"
  ELSE "api_not_found"

requireApiKeyAnyKey(req) == adminKey = "" \/ req.key # ""
requireApiKey(req) ==
  IF adminKey = "" THEN TRUE ELSE req.key # "" /\ req.key = adminKey

\* new Response(res.body, { ...res, headers }): the spread copies the status
\* only where the runtime keeps a Response's attributes as own properties
withCors(res) == [res EXCEPT !.status = IF ownFields THEN res.status ELSE 200]

unauthorized == Resp(401, "unauthorized", Null)
badRequest(message) == Resp(400, "bad_request", Str(message))
apiNotFound == Resp(404, "api_not_found", Null)
exception == Resp(500, "exception", Null)

\* if (cachedAccessToken && now < cachedAccessTokenExpMs - 30_000)
TokenValidNoMargin == ~Falsy(cachedAccessToken) /\ now < cachedAccessTokenExpMs
TokenValid == ~Falsy(cachedAccessToken) /\ now < cachedAccessTokenExpMs - 30000

\* the upstream request a handler sends through zoomFetch, with the token of
\* its Authorization header
UpstreamOf(req, idx, token) ==
  LET h == handleApi(req)
  IN [method |-> IF h = "handleListQueues" THEN "GET"
                 ELSE IF h = "handlePatchQueue" THEN "PATCH" ELSE "POST",
      path |-> IF h = "handlePatchQueue"
               THEN <<"contact_center", "queues", MatchQueueId(req.path)>>
               ELSE <<"contact_center", "queues">>,
      idx |-> idx,
      token |-> token]

\* the handler's working state, threaded through its synchronous steps
Work == [cursor |-> cursor, results |-> results, fibers |-> fibers,
         tokenFetches |-> tokenFetches, upstream |-> upstream]
FreshWork == [cursor |-> 0, results |-> <<>>, fibers |-> NoFibers,
              tokenFetches |-> 0, upstream |-> <<>>]

\* zoomFetch up to its first suspension: getZoomAccessToken returns the cached
\* token and the upstream request goes out, or the token request goes out
zoomFetch(st, req, w, idx) ==
  IF TokenValid
  THEN [st EXCEPT !.fibers[w] = [pc |-> "upstream", idx |-> idx],
                  !.upstream = Append(@, UpstreamOf(req, idx, cachedAccessToken))]
  ELSE [st EXCEPT !.fibers[w] = [pc |-> "token", idx |-> idx],
                  !.tokenFetches = @ + 1]

\* rows.map(...): the task of each row
TaskOf(r, idx) ==
  LET name == OrElse(Get(r, "queue_name"), Get(r, "name"))
      description == OrElse(OrElse(Get(r, "queue_description"), Get(r, "description")),
                            Str(""))
  IN [idx |-> idx,
      payload |-> Obj((IF name = Undefined THEN <<>> ELSE <<KV("queue_name", name)>>)
                        \o <<KV("queue_description", description),
                             KV("channel_types", List(<<Str("voice")>>))>>)]
TasksOf(rows) == [i \in 1..Len(rows) |-> TaskOf(rows[i], i - 1)]

RECURSIVE worker(_, _, _, _)
\* worker() from the head of its loop to its next suspension or its end
worker(ts, st, req, w) ==
  IF st.cursor < Len(ts)
  THEN LET t == ts[st.cursor + 1]
           taken == [st EXCEPT !.cursor = @ + 1]
       IN IF Falsy(Get(t.payload, "queue_name"))
          THEN worker(ts,
                      [taken EXCEPT !.results =
                         Append(@, [idx |-> t.idx, ok |-> FALSE, status |-> 0,
                                    error |-> "Missing queue_name"])],
                      req, w)
          ELSE zoomFetch(taken, req, w, t.idx)
  ELSE [st EXCEPT !.fibers[w] = [pc |-> "done", idx |-> 0]]

RECURSIVE StartWorkers(_, _, _, _)
\* Array.from({ length: concurrency }, () => worker()): the workers start
\* one after the other, each running to its first suspension
StartWorkers(ts, st, req, w) ==
  IF w > Concurrency THEN st
  ELSE StartWorkers(ts, worker(ts, st, req, w), req, w + 1)

RECURSIVE SortByIdx(_)
\* results.sort((a, b) => a.idx - b.idx), a stable sort
SortByIdx(rs) ==
  IF Len(rs) <= 1 THEN rs
  ELSE LET last == rs[Len(rs)]
           front == SortByIdx(SubSeq(rs, 1, Len(rs) - 1))
           keep == SelectSeq(front, LAMBDA r : r.idx <= last.idx)
           after == SelectSeq(front, LAMBDA r : r.idx > last.idx)
       IN keep \o <<last>> \o after

\* the response of handleBulkCreate once Promise.all has resolved
BulkSummary(rs) ==
  LET sorted == SortByIdx(rs)
  IN Resp(200, "",
          [ok |-> TRUE,
           created |-> Len(SelectSeq(sorted, LAMBDA r : r.ok)),
           failed |-> Len(SelectSeq(sorted, LAMBDA r : ~r.ok)),
           results |-> sorted])

AllDone(fs) == \A w \in 1..Concurrency : fs[w].pc = "done"
Suspended(fs) == {w \in 1..Concurrency : fs[w].pc \in {"token", "upstream"}}

\* the text handleBulkCreate parses: the body, or String(body?.csv || "")
\* of a JSON body, null when it does not parse
BulkCsvText(req) ==
  IF req.ct = "text/csv" THEN req.body.text
  ELSE IF req.body.t = "csvjson" THEN req.body.csv ELSE <<>>

\* the outcomes of a token request and of an upstream request: a response
\* that is ok, one that is not, and a fetch that rejects
TokenOutcomes ==
  {[kind |-> "ok", access_token |-> t, expires_in |-> 45] :
     t \in IF area = "proxy" THEN {"t1", "t2"} ELSE {"t1"}}
    \cup {[kind |-> k, access_token |-> "", expires_in |-> 0] : k \in {"refused", "failed"}}
UpstreamOutcomes == {"ok", "refused", "failed"}
\* during the uploads the remote API accepts every queue but "B", and the
\* connection to it fails for no queue but "C"
NameOf(ts, idx) == IF idx + 1 \in 1..Len(ts) THEN Get(ts[idx + 1].payload, "queue_name") ELSE Undefined
OutcomesFor(ts, idx) ==
  IF area = "proxy" THEN UpstreamOutcomes
  ELSE IF NameOf(ts, idx) = Str("B") THEN {"refused"}
       ELSE IF NameOf(ts, idx) = Str("C") THEN {"ok", "failed"} ELSE {"ok"}

\* json({ ok: r.ok, status: r.status, data: r.body }, { status: ... })
Forwarded(req, out) ==
  LET status == IF out = "ok" THEN 200 ELSE 400
  IN Resp(IF out = "ok"
          THEN (IF handleApi(req) = "handleCreateQueue" THEN 201 ELSE 200)
          ELSE status,
          "", [ok |-> out = "ok", status |-> status])

\* the state after the synchronous part of fetch(req): the work started and
\* the response, null while the handler is suspended
Handled(work, res, ts) == [work |-> work, response |-> res, tasks |-> ts]
Answer(res) == Handled(FreshWork, res, <<>>)

\* readJson and the check of the body in handleCreateQueue, handlePatchQueue
handleWithBody(req) ==
  IF req.ct # "application/json" THEN Answer(withCors(badRequest("Expected JSON body.")))
  ELSE IF req.body = Unparsable THEN Answer(exception)
  ELSE IF Falsy(req.body) \/ ~(IsMapping(req.body) \/ IsArray(req.body))
       THEN Answer(withCors(badRequest("Expected JSON body.")))
       ELSE Handled(zoomFetch(FreshWork, req, 1, 0), Null, <<>>)

handleBulkCreate(req) ==
  IF req.ct \notin {"text/csv", "application/json"}
  THEN Answer(withCors(badRequest("Send CSV as text/csv OR JSON { csv: \"...\" }")))
  ELSE LET rows == parseCsv(BulkCsvText(req))
       IN IF Len(rows) = 0
          THEN Answer(withCors(badRequest("CSV had no data rows.")))
          ELSE LET ts == TasksOf(rows)
                   st == StartWorkers(ts, FreshWork, req, 1)
               IN Handled(st,
                          IF AllDone(st.fibers) THEN withCors(BulkSummary(st.results))
                          ELSE Null,
                          ts)

fetch(req) ==
  IF UnderApi(req.path)
  THEN IF req.method = "OPTIONS" THEN Answer(Resp(204, "", Null))
       ELSE IF ~requireApiKey(req) THEN Answer(withCors(unauthorized))
       ELSE LET h == handleApi(req)
            IN IF h = "handleListQueues"
               THEN Handled(zoomFetch(FreshWork, req, 1, 0), Null, <<>>)
               ELSE IF h \in {"handleCreateQueue", "handlePatchQueue"}
                    THEN handleWithBody(req)
                    ELSE IF h = "handleBulkCreate" THEN handleBulkCreate(req)
                         ELSE Answer(withCors(apiNotFound))
  ELSE IF req.path = <<"health">>
       THEN IF req.method = "OPTIONS" THEN Answer(Resp(204, "", Null))
            ELSE Answer(withCors(Resp(200, "", Str("OK"))))
       ELSE IF req.path = <<>> \/ (Len(req.path) >= 2 /\ req.path[1] = "ui")
            THEN Answer(withCors(Resp(200, "", Str("asset"))))
            ELSE Answer(Resp(404, "", Str("Not Found")))

SetWork(st) ==
  /\ cursor' = st.cursor
  /\ results' = st.results
  /\ fibers' = st.fibers
  /\ tokenFetches' = st.tokenFetches
  /\ upstream' = st.upstream

consoleVars == <<appVars, area, fnVars, lastOpened, serverList>>

\* a request arrives and runs to its response or its first suspension
Receive(req) ==
  /\ request = Null
  /\ request' = req
  /\ LET h == fetch(req)
     IN /\ SetWork(h.work)
        /\ response' = h.response
        /\ tasks' = h.tasks
  /\ UNCHANGED <<ownFields, adminKey, cachedAccessToken, cachedAccessTokenExpMs, now,
                 consoleVars>>

\* an exception in a zoomFetch call: the handler's promise rejects (in
\* handleBulkCreate, Promise.all rejects) and the runtime answers, unless the
\* request was answered before
Thrown500 == IF response = Null THEN exception ELSE response

\* the token request of getZoomAccessToken completes
TokenResponse(w, out) ==
  /\ fibers[w].pc = "token"
  /\ IF out.kind = "ok"
     THEN /\ cachedAccessToken' = Str(out.access_token)
          /\ cachedAccessTokenExpMs' = now + out.expires_in * 1000
          /\ SetWork([Work EXCEPT !.fibers[w].pc = "upstream",
                                  !.upstream = Append(@, UpstreamOf(request, fibers[w].idx,
                                                                   Str(out.access_token)))])
          /\ UNCHANGED response
     ELSE /\ SetWork([Work EXCEPT !.fibers[w].pc = "threw"])
          /\ response' = Thrown500
          /\ UNCHANGED <<cachedAccessToken, cachedAccessTokenExpMs>>
  /\ UNCHANGED <<ownFields, adminKey, now, request, tasks, consoleVars>>

\* the upstream request of zoomFetch completes
UpstreamResponse(w, out) ==
  /\ fibers[w].pc = "upstream"
  /\ out \in OutcomesFor(tasks, fibers[w].idx)
  /\ IF out = "failed"
     THEN /\ SetWork([Work EXCEPT !.fibers[w].pc = "threw"])
          /\ response' = Thrown500
     ELSE IF handleApi(request) = "handleBulkCreate"
          THEN LET pushed == [Work EXCEPT !.results =
                                Append(@, [idx |-> fibers[w].idx, ok |-> out = "ok",
                                           status |-> IF out = "ok" THEN 200 ELSE 400,
                                           error |-> ""])]
                   st == worker(tasks, pushed, request, w)
               IN /\ SetWork(st)
                  /\ response' = IF AllDone(st.fibers) /\ response = Null
                                 THEN withCors(BulkSummary(st.results))
                                 ELSE response
          ELSE /\ SetWork([Work EXCEPT !.fibers[w] = [pc |-> "done", idx |-> 0]])
               /\ response' = withCors(Forwarded(request, out))
  /\ UNCHANGED <<ownFields, adminKey, cachedAccessToken, cachedAccessTokenExpMs, now,
                 request, tasks, consoleVars>>

\* time passes
Tick ==
  /\ now < MaxNow
  /\ now' = now + TickMs
  /\ UNCHANGED <<ownFields, adminKey, cachedAccessToken, cachedAccessTokenExpMs,
                 request, response, tasks, cursor, results, fibers, tokenFetches,
                 upstream, consoleVars>>

\* the request is answered and none of its calls is left
Finish ==
  /\ request # Null
  /\ response # Null
  /\ Suspended(fibers) = {}
  /\ request' = Null
  /\ response' = Null
  /\ tasks' = <<>>
  /\ SetWork(FreshWork)
  /\ UNCHANGED <<ownFields, adminKey, cachedAccessToken, cachedAccessTokenExpMs, now,
                 consoleVars>>

ProxyInit ==
  /\ AppInit
  /\ area = "proxy"
  /\ fnName = "none"
  /\ fnOriginal = Null
  /\ fnEdited = Null
  /\ fnResult = Undefined
  /\ lastOpened = ""
  /\ serverList = "before"
  /\ ownFields \in BOOLEAN
  /\ adminKey \in {"", "k"}
  /\ ProxyLoaded

ProxyNext ==
  \/ \E req \in Requests : Receive(req)
  \/ \E w \in 1..Concurrency, out \in TokenOutcomes : TokenResponse(w, out)
  \/ \E w \in 1..Concurrency, out \in UpstreamOutcomes : UpstreamResponse(w, out)
  \/ Tick
  \/ Finish

ProxySpec == ProxyInit /\ [][ProxyNext]_vars

\* bulk uploads through a worker without an API key
UploadInit ==
  /\ AppInit
  /\ area = "upload"
  /\ fnName = "none"
  /\ fnOriginal = Null
  /\ fnEdited = Null
  /\ fnResult = Undefined
  /\ lastOpened = ""
  /\ serverList = "before"
  /\ ownFields = FALSE
  /\ adminKey = ""
  /\ ProxyLoaded

\* the clock stands still while an upload is handled
UploadNext ==
  \/ \E req \in Requests : Receive(req)
  \/ \E w \in 1..Concurrency, out \in TokenOutcomes : TokenResponse(w, out)
  \/ \E w \in 1..Concurrency, out \in UpstreamOutcomes : UpstreamResponse(w, out)
  \/ Finish

UploadSpec == UploadInit /\ [][UploadNext]_vars

(***************************************************************************)
(* Properties of the worker (ProxySpec, UploadSpec).                       *)
(***************************************************************************)
\* the requests of the console's client functions: listQueues, getQueue,
\* createQueue, bulkCreateFromCsv, patchQueue and deleteQueue
ConsoleEndpoints ==
  {<<"GET", PathQueues>>, <<"GET", PathQueue>>, <<"POST", PathQueues>>,
   <<"POST", PathBulk>>, <<"PATCH", PathQueue>>, <<"DELETE", PathQueue>>}

\* C31: the router handles every endpoint the console consumes: a request
\* to one of the six endpoints that passes the API key gate is dispatched to
\* a handler, and its response is never the api_not_found response.
C31_ConsoleEndpointsRouted ==
  (/\ request # Null
   /\ <<request.method, request.path>> \in ConsoleEndpoints
   /\ requireApiKey(request))
    => (/\ handleApi(request) # "api_not_found"
        /\ response # Null => response.error # "api_not_found")

(***************************************************************************)
(* The preview against the payload, and the merge of a patch (FnSpec).     *)
(***************************************************************************)
\* the top-level keys under which a list of diff lines shows an addition
AddedUnder(lines) ==
  {lines[i].path[1] : i \in {j \in 1..Len(lines) : lines[j].kind = "add"
                                                    /\ Len(lines[j].path) >= 1}}

\* C32: preview and payload agree on what changes: for filtered mappings
\* original and edited, deepDiff(original, edited) contains the top-level
\* key k exactly when collectDiffLines(original, edited) contains an addition
\* line at k or below it; so a patch that is not empty never comes with an
\* empty diff block, and every addition line belongs to a key that is sent.
C32_PreviewAgreesWithPayload ==
  (/\ fnName \in {"deepDiff", "collectDiffLines"}
   /\ IsMapping(fnOriginal) /\ IsMapping(fnEdited)
   /\ IsFiltered(fnOriginal) /\ IsFiltered(fnEdited)) =>
    LET d == IF fnName = "deepDiff" THEN fnResult ELSE deepDiff(fnOriginal, fnEdited)
        lines == IF fnName = "collectDiffLines" THEN fnResult
                 ELSE collectDiffLines(fnOriginal, fnEdited, <<>>)
    IN /\ DiffKeys(d) = AddedUnder(lines)
       /\ d # Undefined => (IsMapping(d) /\ \E i \in 1..Len(lines) : lines[i].kind = "add")
       /\ \A i \in 1..Len(lines) :
            lines[i].kind = "add" => (Len(lines[i].path) >= 1 /\ lines[i].path[1] \in DiffKeys(d))

\* an addition line two levels down, under a key of the patch
C32_Witness ==
  /\ fnName = "collectDiffLines"
  /\ IsMapping(fnOriginal) /\ IsMapping(fnEdited)
  /\ IsFiltered(fnOriginal) /\ IsFiltered(fnEdited)
  /\ \E i \in 1..Len(fnResult) :
       /\ fnResult[i].kind = "add"
       /\ Len(fnResult[i].path) = 2
       /\ fnResult[i].path[1] \in DiffKeys(deepDiff(fnOriginal, fnEdited))

RECURSIVE MergePatch(_, _)
RECURSIVE MergeMembers(_, _, _)
\* the members of the mapping `into` after merging the first n members of
\* the patch: a key of both whose values are mappings is merged key by key,
\* any other key takes the value of the patch
MergeMembers(into, patch, n) ==
  IF n = 0 THEN into.members
  ELSE LET before == MergeMembers(into, patch, n - 1)
           k == patch.members[n].k
           v == patch.members[n].v
       IN IF \E j \in 1..Len(before) : before[j].k = k
          THEN [j \in 1..Len(before) |->
                  IF before[j].k = k THEN KV(k, MergePatch(before[j].v, v)) ELSE before[j]]
          ELSE Append(before, KV(k, v))
\* the application of a patch to a resource; an absent patch changes nothing
MergePatch(original, patch) ==
  IF patch = Undefined THEN original
  ELSE IF IsMapping(original) /\ IsMapping(patch)
       THEN Obj(MergeMembers(original, patch, Len(patch.members)))
       ELSE patch

RECURSIVE RetainsKeys(_, _)
\* every mapping of edited has all keys of the mapping of original at its
\* place, outside lists
RetainsKeys(original, edited) ==
  (IsMapping(original) /\ IsMapping(edited)) =>
    \A k \in KeySet(original) :
      HasKey(edited, k) /\ RetainsKeys(Get(original, k), Get(edited, k))

\* C33: patch application round trip: for filtered mappings original and
\* edited such that edited retains all keys of original at every level
\* outside lists, merging deepDiff(original, edited) into original yields a
\* value structurally equal to edited; an absent diff leaves original as it
\* was.
C33_MergeRoundTrip ==
  (/\ fnName = "deepDiff"
   /\ IsMapping(fnOriginal) /\ IsMapping(fnEdited)
   /\ IsFiltered(fnOriginal) /\ IsFiltered(fnEdited)
   /\ RetainsKeys(fnOriginal, fnEdited)) =>
    /\ StructurallyIdentical(MergePatch(fnOriginal, fnResult), fnEdited)
    /\ fnResult = Undefined =>
         (MergePatch(fnOriginal, fnResult) = fnOriginal
          /\ StructurallyIdentical(fnOriginal, fnEdited))

\* a patch with a nested level was merged into a resource that keeps another
\* key at that level
C33_Witness ==
  /\ fnName = "deepDiff"
  /\ IsMapping(fnOriginal) /\ IsMapping(fnEdited)
  /\ IsFiltered(fnOriginal) /\ IsFiltered(fnEdited)
  /\ RetainsKeys(fnOriginal, fnEdited)
  /\ \E k \in DiffKeys(fnResult) :
       /\ IsMapping(Get(fnResult, k))
       /\ IsMapping(Get(fnOriginal, k))
       /\ KeySet(Get(fnOriginal, k)) \ KeySet(Get(fnResult, k)) # {}
       /\ MergePatch(fnOriginal, fnResult) # fnOriginal

(***************************************************************************)
(* Two resources: sessions opened, closed and reopened around detail       *)
(* fetches, with the id of the row last opened kept as history.            *)
(***************************************************************************)
PairInit ==
  /\ AppInit
  /\ WorldInit
  /\ area = "pair"
  /\ fnName = "none"
  /\ fnOriginal = Null
  /\ fnEdited = Null
  /\ fnResult = Undefined

\* what a step of the console outside openEdit leaves alone
pairRest == <<area, fnVars, serverList, proxyVars, formVars>>

PairNext ==
  \/ \E c \in Calls, res \in Envelopes : ListResponse(c, res) /\ UNCHANGED otherVars
  \/ \E q \in Range(queues) :
       openEdit(q) /\ lastOpened' = QueueIdOrEmpty(q) /\ UNCHANGED pairRest
  \/ \E c \in Calls, res \in Envelopes : DetailResponse(c, res) /\ UNCHANGED <<otherVars, formVars>>
  \/ \E text \in ConsoleDraftTexts : TypeDraft(text) /\ UNCHANGED <<otherVars, formVars>>
  \/ CloseEdit /\ UNCHANGED <<otherVars, formVars>>
  \/ computePatchAndOpenConfirm /\ UNCHANGED <<otherVars, formVars>>
  \/ BackToEdit /\ UNCHANGED <<otherVars, formVars>>
  \/ confirmPatch /\ UNCHANGED <<otherVars, formVars>>
  \/ \E c \in Calls, res \in Envelopes : PatchResponse(c, res) /\ UNCHANGED <<otherVars, formVars>>
  \/ \E text \in DeleteInputs : TypeDeleteConfirm(text) /\ UNCHANGED <<otherVars, formVars>>
  \/ confirmDelete /\ UNCHANGED <<otherVars, formVars>>
  \/ \E c \in Calls, res \in Envelopes : DeleteResponse(c, res) /\ UNCHANGED <<otherVars, formVars>>

PairSpec == PairInit /\ [][PairNext]_vars

\* C34: every PATCH or DELETE request is addressed to the id (queue_id,
\* else id) of the resource the user most recently opened for edit, in every
\* interleaving of open, close and reopen with the detail responses of
\* earlier sessions.
C34_MutationsAddressLastOpened ==
  [][\A c \in SentNow("patchQueue") \cup SentNow("deleteQueue") : c.id = lastOpened]_vars

(***************************************************************************)
(* Overlapping list reloads around one PATCH: every list request is        *)
(* answered with the list the remote API held when the request was sent,   *)
(* and the responses arrive in any order.                                  *)
(***************************************************************************)
OverlapInit ==
  /\ AppInit
  /\ WorldInit
  /\ area = "overlap"
  /\ fnName = "none"
  /\ fnOriginal = Null
  /\ fnEdited = Null
  /\ fnResult = Undefined

\* the remote API holds the patched list once a PATCH was answered ok
ListAfter(res) == IF res # Thrown /\ IsOk(res) THEN "after" ELSE serverList

OverlapNext ==
  \/ refresh /\ UNCHANGED <<otherVars, formVars>>
  \/ \E c \in Calls, res \in Envelopes : ListResponse(c, res) /\ UNCHANGED otherVars
  \/ \E q \in Range(queues) : openEdit(q) /\ UNCHANGED <<otherVars, formVars>>
  \/ \E c \in Calls, res \in Envelopes : DetailResponse(c, res) /\ UNCHANGED <<otherVars, formVars>>
  \/ \E text \in ConsoleDraftTexts : TypeDraft(text) /\ UNCHANGED <<otherVars, formVars>>
  \/ CloseEdit /\ UNCHANGED <<otherVars, formVars>>
  \/ computePatchAndOpenConfirm /\ UNCHANGED <<otherVars, formVars>>
  \/ BackToEdit /\ UNCHANGED <<otherVars, formVars>>
  \/ confirmPatch /\ UNCHANGED <<otherVars, formVars>>
  \/ \E c \in Calls, res \in Envelopes :
       /\ PatchResponse(c, res)
       /\ serverList' = ListAfter(res)
       /\ UNCHANGED <<area, fnVars, lastOpened, proxyVars, formVars>>

OverlapSpec == OverlapInit /\ [][OverlapNext]_vars

\* C35: when several list reloads overlap, then once all of them have
\* completed the queue list holds the response of the most recently issued
\* reload.  A successful mutation issues a reload of its own and nothing
\* else changes the remote list, so the reload issued last was answered with
\* the list the remote API holds now.
C35_LatestReloadWins ==
  CountCalls("listQueues") = 0 => queues = ListAt(serverList)

(***************************************************************************)
(* The bulk upload through the worker (UploadSpec).                        *)
(***************************************************************************)
BulkAnswered ==
  /\ request # Null
  /\ handleApi(request) = "handleBulkCreate"
  /\ Len(tasks) > 0
  /\ response # Null

\* the upstream create requests sent for the row of index idx
SentFor(idx) == {i \in 1..Len(upstream) : upstream[i].idx = idx}
Unnamed(t) == Falsy(Get(t.payload, "queue_name"))

\* the response carries one result per row in ascending order of index, the
\* counts add up, and a row without a name failed
OneResultPerRow(body) ==
  /\ Len(body.results) = Len(tasks)
  /\ \A i \in 1..Len(tasks) : body.results[i].idx = i - 1
  /\ body.created + body.failed = Len(tasks)
  /\ \A i \in 1..Len(tasks) :
       Unnamed(tasks[i]) =>
         (~body.results[i].ok /\ body.results[i].error = "Missing queue_name")

\* a row without a name causes no upstream request, every other row one
OneRequestPerRow ==
  \A i \in 1..Len(tasks) :
    Cardinality(SentFor(i - 1)) = IF Unnamed(tasks[i]) THEN 0 ELSE 1

\* C36: the bulk create processes every CSV data row exactly once across
\* its workers: the response has exactly one result per row, in ascending
\* order of row index, created + failed is the number of rows, a row with no
\* queue_name is reported failed without an upstream request, and every
\* other row causes exactly one upstream create request.
C36_EveryRowExactlyOnce ==
  BulkAnswered =>
    /\ response.error = ""
    /\ OneResultPerRow(response.body)
    /\ OneRequestPerRow

\* the upstream requests of the workers that are in flight
InFlightUpstream == {w \in 1..Concurrency : fibers[w].pc = "upstream"}

\* C37: during a bulk create at most 4 upstream create requests are in
\* flight at any moment, and the handler responds only after the request of
\* every row has completed.
C37_ThrottledAndComplete ==
  /\ Cardinality(InFlightUpstream) <= 4
  /\ BulkAnswered => (Suspended(fibers) = {} /\ cursor = Len(tasks) /\ OneRequestPerRow)

(***************************************************************************)
(* The API key gate and the token cache (ProxySpec).                       *)
(***************************************************************************)
\* a request under /api/ other than OPTIONS
Gated == request # Null /\ UnderApi(request.path) /\ request.method # "OPTIONS"

\* C38: when ADMIN_API_KEY is configured, every non-OPTIONS request under
\* /api/ whose x-admin-api-key header is missing or differs from the key
\* receives a 401 response and causes no token fetch and no upstream
\* request; when no key is configured every such request is let through.
C38_ApiKeyGate ==
  /\ (Gated /\ adminKey # "" /\ request.key # adminKey) =>
       (/\ response # Null
        /\ response.status = 401
        /\ tokenFetches = 0
        /\ upstream = <<>>)
  /\ (Gated /\ adminKey = "" /\ response # Null) => response.error # "unauthorized"

\* getZoomAccessToken was called in this step: a zoomFetch call of worker w
\* started, and it went for a token or straight to the upstream API
Started(w) ==
  /\ fibers[w].pc # "token"
  /\ fibers'[w].pc \in {"token", "upstream"}
  /\ fibers'[w] # fibers[w]
CacheUnchanged ==
  /\ cachedAccessToken' = cachedAccessToken
  /\ cachedAccessTokenExpMs' = cachedAccessTokenExpMs
\* a token is cached and the time is more than 30 seconds before its expiry
CachedAndFresh == cachedAccessToken # Null /\ cachedAccessTokenExpMs - now > 30000

\* C39: getZoomAccessToken returns the cached access token without
\* contacting the token endpoint exactly when a token is cached and the time
\* is more than 30 seconds before its recorded expiry; otherwise it requests
\* a new token; only a successful token response replaces the cached token
\* and expiry, and a failed token request throws and leaves the cache as it
\* was.
C39_TokenCache ==
  /\ [][\A w \in 1..Concurrency :
          Started(w) =>
            IF CachedAndFresh
            THEN /\ fibers'[w].pc = "upstream"
                 /\ \E i \in 1..Len(upstream') :
                      /\ upstream'[i].idx = fibers'[w].idx
                      /\ upstream'[i].token = cachedAccessToken
                 /\ CacheUnchanged
            ELSE fibers'[w].pc = "token"]_vars
  /\ [][request' # Null =>
          tokenFetches' = tokenFetches
            + Cardinality({w \in 1..Concurrency : Started(w) /\ fibers'[w].pc = "token"})]_vars
  /\ [][~CacheUnchanged =>
          \E w \in 1..Concurrency, out \in TokenOutcomes :
            /\ fibers[w].pc = "token"
            /\ out.kind = "ok"
            /\ cachedAccessToken' = Str(out.access_token)
            /\ cachedAccessTokenExpMs' = now + out.expires_in * 1000
            /\ fibers'[w].pc = "upstream"]_vars
  /\ [][\A w \in 1..Concurrency :
          (fibers[w].pc = "token" /\ fibers'[w].pc = "threw")
            => (CacheUnchanged /\ response' # Null)]_vars

\* a request that went upstream with the cached token, without a token
\* request, after time has passed since the token was fetched
C39_Witness ==
  /\ request # Null
  /\ fibers[1].pc = "upstream"
  /\ tokenFetches = 0
  /\ now > 0
  /\ CachedAndFresh
  /\ upstream = <<UpstreamOf(request, 0, cachedAccessToken)>>

====
